---- MODULE Spec2Model ----
(***************************************************************************)
(* Workflow execution engine of agentic-platform                           *)
(* (src/src/services/workflow_engine.py, class WorkflowEngine).            *)
(*                                                                         *)
(* The database is modelled as the committed rows of workflows,            *)
(* workflow_executions, workflow_step_executions and agent_tasks.  Every   *)
(* action is the code between two suspension points of a handler and ends  *)
(* with the commit that makes its writes visible to the other handlers.    *)
(* A flush writes only the attributes the handler assigned                 *)
(* (src/src/db/session.py: expire_on_commit=False, autoflush=False), so a  *)
(* commit is a field-wise update of the row.                               *)
(*                                                                         *)
(* The external capabilities (AgentExecutor.execute_agent,                 *)
(* MCPClient.execute_tool, the aiohttp request) are modelled by their      *)
(* interface: a call either returns an output or raises an error.  The     *)
(* repository accepts every insert and update.                             *)
(***************************************************************************)
EXTENDS Integers, Sequences, FiniteSets, TLC

VARIABLES workflows, executions, step_executions, agent_tasks,
          run, cancel, clock, response

vars == <<workflows, executions, step_executions, agent_tasks,
          run, cancel, clock, response>>

(***************************************************************************)
(* Bounds of the model                                                     *)
(***************************************************************************)
\* longest list of top-level steps of a workflow
MaxSteps == 2
\* largest max_retries a step declares
MaxRetries == 2
\* depth at which the interpreter refuses one more nested coroutine call
\* (sys.getrecursionlimit() in CPython; RecursionError beyond it)
RecursionLimit == 3
\* sub-steps of a parallel step
MaxSubSteps == 2
\* pieces (placeholders, plain text) a template string is written from
MaxPieces == 2

(***************************************************************************)
(* Values                                                                  *)
(***************************************************************************)
\* a nullable column: None, or Some(v)
None == <<>>
Some(v) == <<v>>
IsSet(opt) == opt # None
The(opt) == opt[1]

Tenants == {"t1", "t2"}

\* ids a caller may pass as workflow_id; "w_missing" has no row
WorkflowIds == {"w1", "w_draft", "w_deleted", "w_missing"}

\* agents table: the non-deleted agents of each tenant
Agents == [t \in Tenants |-> IF t = "t1" THEN {"a1"} ELSE {"a2"}]

\* what a capability may answer (the agent's text, the tool's result, the
\* body of the HTTP response), and how it may fail
Responses ==
    [agent |-> {"yes", "no"}, mcp_tool |-> {"rows"}, http |-> {"body"}]
Errors == {"boom"}

TerminalStatuses == {"completed", "failed", "cancelled"}

RetryOptions == {None} \cup {Some(k) : k \in 1..MaxRetries}

\* step definitions a workflow may be built from (the JSON of Workflow.steps)
StepPool ==
    {[type |-> "agent", name |-> "A", agent_id |-> "a1", max_retries |-> m] :
        m \in RetryOptions}
    \cup
    {[type |-> "mcp_tool", name |-> "B", agent_id |-> "", max_retries |-> m] :
        m \in {None, Some(MaxRetries)}}
    \cup
    {[type |-> "http", name |-> "H", agent_id |-> "", max_retries |-> None],
     [type |-> "agent", name |-> "M", agent_id |-> "a_gone", max_retries |-> None],
     [type |-> "email", name |-> "X", agent_id |-> "", max_retries |-> None]}

\* the order in which the steps of the pool appear in a workflow
StepOrder == <<"A", "X", "M", "B", "H">>
Rank(name) == CHOOSE k \in DOMAIN StepOrder : StepOrder[k] = name

\* the workflows explored: lists of steps of the pool in that order, so
\* that names are unique among siblings
StepLists ==
    {s \in UNION {[1..n -> StepPool] : n \in 1..MaxSteps} :
        \A i, j \in DOMAIN s : i < j => Rank(s[i].name) < Rank(s[j].name)}

InputDatas == {[x |-> "go"]}
\* the optional context argument of execute_workflow (a dict, or None)
ContextArgs == {None, Some([user |-> "u"])}

\* the Python expression `context or {}`
OrEmpty(context) == IF context = None THEN <<>> ELSE The(context)

\* datetime.now(timezone.utc) in execute_workflow and the step executors:
\* time has advanced since the run last read the clock
Now == clock + 1

\* int((completed_at - started_at).total_seconds())
Duration(started_at, completed_at) == completed_at - started_at

\* what a handler hands to its caller in the step that ends it: the call
\* (op, tenant_id of the engine, arg = the id passed) and its outcome
\* (error = the exception raised, value = the execution returned)
NoResponse ==
    [op |-> "", tenant_id |-> "", arg |-> None, error |-> None, value |-> None]
Response(op, t, arg, error, value) ==
    [op |-> op, tenant_id |-> t, arg |-> Some(arg), error |-> error,
     value |-> value]

IdleRun ==
    [pc |-> "idle", tenant_id |-> "", workflow_id |-> "", execution |-> 0,
     idx |-> 0, workflow_context |-> <<>>, step_execution |-> 0, depth |-> 0,
     error |-> None, calls |-> 0, begun_cancelled |-> FALSE, outputs |-> <<>>,
     tasks |-> <<>>, finished |-> <<>>, condition_result |-> None]

IdleCancel == [pc |-> "idle", tenant_id |-> "", execution_id |-> 0]

(***************************************************************************)
(* Initial state: the workflows table is populated, no execution exists.   *)
(* One execute_workflow request is followed from its start to its end,     *)
(* concurrently with any number of cancel_workflow requests.               *)
(***************************************************************************)
WorkflowRow(t, st, del, steps) ==
    [tenant_id |-> t, status |-> st, deleted |-> del, steps |-> steps]

Init ==
    /\ \E steps \in StepLists :
          workflows =
              [w \in WorkflowIds \ {"w_missing"} |->
                  CASE w = "w1" -> WorkflowRow("t1", "active", FALSE, steps)
                    [] w = "w_draft" -> WorkflowRow("t1", "draft", FALSE, steps)
                    [] w = "w_deleted" -> WorkflowRow("t1", "active", TRUE, steps)]
    /\ executions = <<>>
    /\ step_executions = <<>>
    /\ agent_tasks = <<>>
    /\ run = IdleRun
    /\ cancel = IdleCancel
    /\ clock = 0
    /\ response = NoResponse

(***************************************************************************)
(* Pure helpers of the handlers                                            *)
(***************************************************************************)
\* select(Workflow).where(id, tenant_id, deleted_at IS NULL).scalar_one_or_none()
LoadWorkflow(t, w) ==
    IF /\ w \in DOMAIN workflows
       /\ workflows[w].tenant_id = t
       /\ ~workflows[w].deleted
    THEN Some(workflows[w])
    ELSE None

\* faulty variant of Preflight: the status of the workflow is not checked
PreflightWithoutStatus(t, w) ==
    IF LoadWorkflow(t, w) = None THEN Some("not found") ELSE None

\* the two pre-flight checks of execute_workflow: the error raised, or None
Preflight(t, w) ==
    IF LoadWorkflow(t, w) = None THEN Some("not found")
    ELSE IF The(LoadWorkflow(t, w)).status # "active" THEN Some("not active")
    ELSE None

\* the seed of the context: {"input": input_data, **(context or {})}
SeedContext(input_data, context) ==
    OrEmpty(context) @@ ("input" :> input_data)

\* faulty variant of UpdateContext: the result replaces what the context held
UpdateContextReplacing(workflow_context, step_name, result) ==
    (step_name :> result)

\* faulty variant of UpdateContext: the step result is not stored
UpdateContextDropped(workflow_context, step_name, result) == workflow_context

\* workflow_context[step_name] = result
UpdateContext(workflow_context, step_name, result) ==
    (step_name :> result) @@ workflow_context

\* step.get("max_retries", 0)
MaxRetriesOf(step) ==
    IF step.max_retries = None THEN 0 ELSE The(step.max_retries)

\* faulty variant of ShouldRetry: the comparison is off by one
ShouldRetryInclusive(retry_count, step) == retry_count <= MaxRetriesOf(step)

\* the retry test of the agent and mcp_tool executors
ShouldRetry(retry_count, step) == retry_count < MaxRetriesOf(step)

\* the step types _execute_steps dispatches to a leaf executor
LeafTypes == {"agent", "mcp_tool", "http"}

\* the step types _execute_steps has an executor for
DispatchedTypes == LeafTypes \cup {"parallel", "conditional"}

\* the executors that carry the retry logic
RetryingTypes == {"agent", "mcp_tool"}

\* faulty variant of Cancellable: a cancelled execution is accepted again
CancellableAgain(status) == status \in {"pending", "running", "cancelled"}

\* execution.status not in ["pending", "running"] is refused by cancel_workflow
Cancellable(status) == status \in {"pending", "running"}

\* faulty variant of LoadExecution: the tenant is not part of the query
LoadExecutionAnyTenant(t, id) ==
    IF id \in DOMAIN executions
    THEN Some(executions[id])
    ELSE None

\* select(WorkflowExecution).where(id, tenant_id).scalar_one_or_none()
LoadExecution(t, id) ==
    IF id \in DOMAIN executions /\ executions[id].tenant_id = t
    THEN Some(executions[id])
    ELSE None

\* `"output_mapping" in step`, which only the agent executor asks
HasOutputMapping(step) ==
    step.type = "agent" /\ "output_mapping" \in DOMAIN step

\* what a step hands back for the answer r of its capability
StepOutput(step, r, task_id) ==
    CASE step.type = "agent" -> [response |-> r, task_id |-> task_id]
      [] step.type = "mcp_tool" -> [result |-> r]
      [] step.type = "http" -> [status |-> 200, body |-> r]

\* the step the run is at
CurrentStep == The(LoadWorkflow(run.tenant_id, run.workflow_id)).steps[run.idx]
RunSteps == The(LoadWorkflow(run.tenant_id, run.workflow_id)).steps

(***************************************************************************)
(* execute_workflow                                                        *)
(***************************************************************************)
\* the WorkflowExecution row execute_workflow inserts
NewExecution(id, t, w, input_data, context, now) ==
    [id |-> id, tenant_id |-> t, workflow_id |-> w, input_data |-> input_data,
     context |-> OrEmpty(context), status |-> "running", current_step |-> "",
     started_at |-> now, completed_at |-> None, duration_seconds |-> None,
     output_data |-> None, error_message |-> None]

\* faulty variant of NewStepExecution: the row is inserted as completed
NewStepExecutionCompleted(t, execution_id, step, now) ==
    [tenant_id |-> t, workflow_execution_id |-> execution_id,
     step_name |-> step.name, step_type |-> step.type, status |-> "completed",
     retry_count |-> 0, output_data |-> None, error_message |-> None,
     started_at |-> now, completed_at |-> Some(now),
     duration_seconds |-> Some(0), step |-> step]

\* the WorkflowStepExecution row a step executor inserts (retry_count
\* takes the column default 0)
NewStepExecution(t, execution_id, step, now) ==
    [tenant_id |-> t, workflow_execution_id |-> execution_id,
     step_name |-> step.name, step_type |-> step.type, status |-> "running",
     retry_count |-> 0, output_data |-> None, error_message |-> None,
     started_at |-> now, completed_at |-> None, duration_seconds |-> None,
     step |-> step]

\* faulty variant of CompletedStep: the output is stored, the status is not
CompletedStepStillRunning(rec, output, now) ==
    [rec EXCEPT !.output_data = Some(output)]

\* step_execution.status = "completed" with output and timing
CompletedStep(rec, output, now) ==
    [rec EXCEPT !.status = "completed", !.output_data = Some(output),
                !.completed_at = Some(now),
                !.duration_seconds = Some(Duration(rec.started_at, now))]

\* step_execution.status = "failed" with error message and timing
FailedStep(rec, err, now) ==
    [rec EXCEPT !.status = "failed", !.error_message = Some(err),
                !.completed_at = Some(now),
                !.duration_seconds = Some(Duration(rec.started_at, now))]

\* the success branch of execute_workflow
CompletedExecution(row, output_data, now) ==
    [row EXCEPT !.status = "completed", !.output_data = Some(output_data),
                !.completed_at = Some(now),
                !.duration_seconds = Some(Duration(row.started_at, now))]

\* faulty variant of FailedExecution: the error message is not recorded
FailedExecutionWithoutMessage(row, err, now) ==
    [row EXCEPT !.status = "failed", !.completed_at = Some(now),
                !.duration_seconds = Some(Duration(row.started_at, now))]

\* the except branch of execute_workflow
FailedExecution(row, err, now) ==
    [row EXCEPT !.status = "failed", !.error_message = Some(err),
                !.completed_at = Some(now),
                !.duration_seconds = Some(Duration(row.started_at, now))]

\* faulty variant of CancelledExecution: completed_at is not set
CancelledExecutionWithoutTime(row, now) ==
    [row EXCEPT !.status = "cancelled"]

\* the update cancel_workflow commits
CancelledExecution(row, now) ==
    [row EXCEPT !.status = "cancelled", !.completed_at = Some(now),
                !.duration_seconds = Some(Duration(row.started_at, now))]

\* pre-flight fails: the ValueError reaches the caller, nothing is written
ExecuteWorkflowRejected(t, w) ==
    /\ run.pc \in {"idle", "done"}
    /\ Preflight(t, w) # None
    /\ response' = Response("execute_workflow", t, w, Preflight(t, w), None)
    /\ UNCHANGED <<workflows, executions, step_executions, agent_tasks,
                   run, cancel, clock>>

\* pre-flight passes: the execution row is inserted with status running
ExecuteWorkflow(t, w, input_data, context) ==
    /\ run.pc = "idle"
    /\ Preflight(t, w) = None
    /\ executions' = Append(executions,
           NewExecution(Len(executions) + 1, t, w, input_data, context, Now))
    /\ clock' = Now
    /\ run' = [IdleRun EXCEPT !.pc = "steps", !.tenant_id = t,
                              !.workflow_id = w,
                              !.execution = Len(executions) + 1, !.idx = 1,
                              !.workflow_context = SeedContext(input_data, context)]
    /\ response' = NoResponse
    /\ UNCHANGED <<workflows, step_executions, agent_tasks, cancel>>

\* faulty variant of BeginStep: current_step is not written
BeginStepUnrecorded ==
    /\ run.pc = "steps"
    /\ run.idx <= Len(RunSteps)
    /\ run' = [run EXCEPT !.pc = "dispatch", !.depth = 1, !.calls = 0,
                          !.step_execution = 0,
                          !.begun_cancelled =
                              (executions[run.execution].status = "cancelled")]
    /\ response' = NoResponse
    /\ UNCHANGED <<workflows, executions, step_executions, agent_tasks,
                   cancel, clock>>

\* _execute_steps, head of the loop: execution.current_step = step_name
BeginStep ==
    /\ run.pc = "steps"
    /\ run.idx <= Len(RunSteps)
    /\ executions' = [executions EXCEPT
                         ![run.execution].current_step = CurrentStep.name]
    /\ run' = [run EXCEPT !.pc = "dispatch", !.depth = 1, !.calls = 0,
                          !.step_execution = 0,
                          !.begun_cancelled =
                              (executions[run.execution].status = "cancelled")]
    /\ response' = NoResponse
    /\ UNCHANGED <<workflows, step_executions, agent_tasks, cancel, clock>>

\* faulty variant of UnknownStepType: the step is recorded as failed before
\* the error is raised
UnknownStepTypeRecorded ==
    /\ run.pc = "dispatch"
    /\ CurrentStep.type \notin DispatchedTypes
    /\ step_executions' = Append(step_executions,
           FailedStep(NewStepExecution(run.tenant_id, run.execution,
                                       CurrentStep, Now),
                      "Unknown step type", Now))
    /\ clock' = Now
    /\ run' = [run EXCEPT !.pc = "except",
                          !.error = Some("Unknown step type")]
    /\ response' = NoResponse
    /\ UNCHANGED <<workflows, executions, agent_tasks, cancel>>

\* _execute_steps: a step type without an executor raises ValueError
UnknownStepType ==
    /\ run.pc = "dispatch"
    /\ CurrentStep.type \notin DispatchedTypes
    /\ run' = [run EXCEPT !.pc = "except",
                          !.error = Some("Unknown step type")]
    /\ response' = NoResponse
    /\ UNCHANGED <<workflows, executions, step_executions, agent_tasks,
                   cancel, clock>>

\* a leaf executor inserts its step execution with status running
CreateStepExecution ==
    /\ run.pc = "dispatch"
    /\ CurrentStep.type \in LeafTypes
    /\ step_executions' = Append(step_executions,
           NewStepExecution(run.tenant_id, run.execution, CurrentStep, Now))
    /\ clock' = Now
    /\ run' = [run EXCEPT !.pc = "invoke",
                          !.step_execution = Len(step_executions) + 1]
    /\ response' = NoResponse
    /\ UNCHANGED <<workflows, executions, agent_tasks, cancel>>

\* the AgentTask row _execute_agent_step inserts before calling the agent
NewAgentTask(t, agent_id, execution_id) ==
    [tenant_id |-> t, agent_id |-> agent_id,
     workflow_execution_id |-> execution_id, status |-> "in_progress"]

\* _execute_agent_step: the agent is loaded and its AgentTask is inserted
LoadAgent ==
    /\ run.pc = "invoke"
    /\ CurrentStep.type = "agent"
    /\ CurrentStep.agent_id \in Agents[run.tenant_id]
    /\ agent_tasks' = Append(agent_tasks,
           NewAgentTask(run.tenant_id, CurrentStep.agent_id, run.execution))
    /\ run' = [run EXCEPT !.pc = "call"]
    /\ response' = NoResponse
    /\ UNCHANGED <<workflows, executions, step_executions, cancel, clock>>

\* _execute_agent_step: no such agent.  The ValueError is raised before
\* `task` is bound, so the handler's `if task:` raises UnboundLocalError,
\* which leaves the executor before the step execution is updated.
AgentNotFound ==
    /\ run.pc = "invoke"
    /\ CurrentStep.type = "agent"
    /\ CurrentStep.agent_id \notin Agents[run.tenant_id]
    /\ run' = [run EXCEPT !.pc = "except",
                          !.error = Some("UnboundLocalError: task")]
    /\ response' = NoResponse
    /\ UNCHANGED <<workflows, executions, step_executions, agent_tasks,
                   cancel, clock>>

\* the executor is about to await its capability
AtCapability ==
    \/ run.pc = "call" /\ CurrentStep.type = "agent"
    \/ run.pc = "invoke" /\ CurrentStep.type \in {"mcp_tool", "http"}

\* the agent task of the running agent step is the last one inserted
FinishTask(tasks, step, status) ==
    IF step.type = "agent"
    THEN [tasks EXCEPT ![Len(tasks)].status = status]
    ELSE tasks

\* the capability answers r: the step execution is completed, the output is
\* returned to _execute_steps, which stores it under the step's name
StepSucceeds(r) ==
    /\ AtCapability
    /\ ~HasOutputMapping(CurrentStep)
    /\ r \in Responses[CurrentStep.type]
    /\ LET output == StepOutput(CurrentStep, r, Len(agent_tasks)) IN
       /\ step_executions' = [step_executions EXCEPT ![run.step_execution] =
              CompletedStep(@, output, Now)]
       /\ run' = [run EXCEPT !.pc = "steps", !.idx = @ + 1, !.calls = @ + 1,
                             !.workflow_context =
                                 UpdateContext(@, CurrentStep.name, output),
                             !.outputs = Append(@, output)]
    /\ agent_tasks' = FinishTask(agent_tasks, CurrentStep, "completed")
    /\ clock' = Now
    /\ response' = NoResponse
    /\ UNCHANGED <<workflows, executions, cancel>>

\* the capability raises err: the step execution is marked failed
StepFails(err) ==
    /\ AtCapability
    /\ step_executions' = [step_executions EXCEPT ![run.step_execution] =
           FailedStep(@, err, Now)]
    /\ agent_tasks' = FinishTask(agent_tasks, CurrentStep, "failed")
    /\ clock' = Now
    /\ run' = [run EXCEPT !.pc = IF CurrentStep.type \in RetryingTypes
                                 THEN "retry" ELSE "except",
                          !.calls = @ + 1, !.error = Some(err)]
    /\ response' = NoResponse
    /\ UNCHANGED <<workflows, executions, cancel>>

\* retry logic: retry_count += 1 and the executor calls itself, which
\* inserts a fresh step execution; beyond the interpreter's recursion
\* limit the call raises RecursionError instead
Retry ==
    /\ run.pc = "retry"
    /\ ShouldRetry(step_executions[run.step_execution].retry_count, CurrentStep)
    /\ step_executions' = [step_executions EXCEPT
                              ![run.step_execution].retry_count = @ + 1]
    /\ run' = IF run.depth < RecursionLimit
              THEN [run EXCEPT !.pc = "dispatch", !.depth = @ + 1,
                               !.error = None]
              ELSE [run EXCEPT !.pc = "except",
                               !.error = Some("RecursionError")]
    /\ response' = NoResponse
    /\ UNCHANGED <<workflows, executions, agent_tasks, cancel, clock>>

\* retry logic: the budget is spent, the error is re-raised
GiveUp ==
    /\ run.pc = "retry"
    /\ ~ShouldRetry(step_executions[run.step_execution].retry_count, CurrentStep)
    /\ run' = [run EXCEPT !.pc = "except"]
    /\ response' = NoResponse
    /\ UNCHANGED <<workflows, executions, step_executions, agent_tasks,
                   cancel, clock>>

\* execute_workflow, success: status completed, output_data = final context
MarkCompleted ==
    /\ run.pc = "steps"
    /\ run.idx > Len(RunSteps)
    /\ executions' = [executions EXCEPT ![run.execution] =
           CompletedExecution(@, run.workflow_context, Now)]
    /\ clock' = Now
    /\ run' = [run EXCEPT !.pc = "return"]
    /\ response' = NoResponse
    /\ UNCHANGED <<workflows, step_executions, agent_tasks, cancel>>

\* execute_workflow, except: status failed, error_message = str(e)
MarkFailed ==
    /\ run.pc = "except"
    /\ executions' = [executions EXCEPT ![run.execution] =
           FailedExecution(@, The(run.error), Now)]
    /\ clock' = Now
    /\ run' = [run EXCEPT !.pc = "reraise"]
    /\ response' = NoResponse
    /\ UNCHANGED <<workflows, step_executions, agent_tasks, cancel>>

\* execute_workflow: refresh(execution); return execution
Return ==
    /\ run.pc = "return"
    /\ response' = Response("execute_workflow", run.tenant_id, run.workflow_id,
                             None, Some(executions[run.execution]))
    /\ run' = [run EXCEPT !.pc = "done"]
    /\ UNCHANGED <<workflows, executions, step_executions, agent_tasks,
                   cancel, clock>>

\* faulty variant of Reraise: the exception is swallowed and the failed
\* execution is returned
ReraiseSwallowed ==
    /\ run.pc = "reraise"
    /\ response' = Response("execute_workflow", run.tenant_id, run.workflow_id,
                             None, Some(executions[run.execution]))
    /\ run' = [run EXCEPT !.pc = "done"]
    /\ UNCHANGED <<workflows, executions, step_executions, agent_tasks,
                   cancel, clock>>

\* execute_workflow: refresh(execution); the exception propagates
Reraise ==
    /\ run.pc = "reraise"
    /\ response' = Response("execute_workflow", run.tenant_id, run.workflow_id,
                             run.error, None)
    /\ run' = [run EXCEPT !.pc = "done"]
    /\ UNCHANGED <<workflows, executions, step_executions, agent_tasks,
                   cancel, clock>>

(***************************************************************************)
(* cancel_workflow                                                         *)
(***************************************************************************)
\* faulty variant of CancelCheck: the execution is looked up by id alone
CancelCheckAnyTenant(t, id) ==
    IF LoadExecutionAnyTenant(t, id) = None THEN Some("not found")
    ELSE IF ~Cancellable(The(LoadExecutionAnyTenant(t, id)).status)
         THEN Some("Cannot cancel")
    ELSE None

\* the outcome of the two checks of cancel_workflow: the error, or None
CancelCheck(t, id) ==
    IF LoadExecution(t, id) = None THEN Some("not found")
    ELSE IF ~Cancellable(The(LoadExecution(t, id)).status)
         THEN Some("Cannot cancel")
    ELSE None

\* cancel_workflow raises ValueError: nothing is written
CancelRejected(t, id) ==
    /\ cancel.pc = "idle"
    /\ CancelCheck(t, id) # None
    /\ response' = Response("cancel_workflow", t, id, CancelCheck(t, id), None)
    /\ UNCHANGED <<workflows, executions, step_executions, agent_tasks,
                   run, cancel, clock>>

\* cancel_workflow has loaded a pending or running execution
CancelLoad(t, id) ==
    /\ cancel.pc = "idle"
    /\ CancelCheck(t, id) = None
    /\ cancel' = [pc |-> "commit", tenant_id |-> t, execution_id |-> id]
    /\ response' = NoResponse
    /\ UNCHANGED <<workflows, executions, step_executions, agent_tasks,
                   run, clock>>

\* cancel_workflow commits status cancelled, completed_at, duration_seconds
CancelCommit ==
    /\ cancel.pc = "commit"
    /\ executions' = [executions EXCEPT ![cancel.execution_id] =
           CancelledExecution(@, clock)]
    /\ UNCHANGED clock
    /\ cancel' = [cancel EXCEPT !.pc = "return"]
    /\ response' = NoResponse
    /\ UNCHANGED <<workflows, step_executions, agent_tasks, run>>

\* cancel_workflow: refresh(execution); return execution
CancelReturn ==
    /\ cancel.pc = "return"
    /\ response' = Response("cancel_workflow", cancel.tenant_id,
                             cancel.execution_id, None,
                             Some(executions[cancel.execution_id]))
    /\ cancel' = IdleCancel
    /\ UNCHANGED <<workflows, executions, step_executions, agent_tasks,
                   run, clock>>

(***************************************************************************)
(* Python values, as the resolver and the condition evaluator see them.    *)
(* A value carries its type: <<"none">>, <<"bool", b>>, <<"int", n>>,      *)
(* <<"float", h>> (h in hundredths), <<"str", chars>>, <<"list", items>>,  *)
(* <<"dict", pairs>> (the <<key, value>> pairs in insertion order, the key *)
(* being the chars of a string).  A string is the sequence of its          *)
(* characters; a run of ordinary characters may be kept as one element.    *)
(***************************************************************************)
PyNone == <<"none">>
PyBool(b) == <<"bool", b>>
PyInt(n) == <<"int", n>>
PyFloat(h) == <<"float", h>>
PyStr(chars) == <<"str", chars>>
PyList(items) == <<"list", items>>
PyDict(pairs) == <<"dict", pairs>>

\* isinstance(value, dict)
IsDict(value) == value[1] = "dict"

\* value.get(part) on a dict
Get(value, key) ==
    IF \E i \in DOMAIN value[2] : value[2][i][1] = key
    THEN value[2][CHOOSE i \in DOMAIN value[2] : value[2][i][1] = key][2]
    ELSE PyNone

\* the decimal digits of a natural number
DigitChars == <<"0", "1", "2", "3", "4", "5", "6", "7", "8", "9">>
RECURSIVE Digits(_)
Digits(n) ==
    IF n < 10 THEN <<DigitChars[n + 1]>>
    ELSE Digits(n \div 10) \o <<DigitChars[(n % 10) + 1]>>

\* the absolute value and the sign of a number, as str() prints them
Abs(n) == IF n < 0 THEN 0 - n ELSE n
SignChars(n) == IF n < 0 THEN <<"-">> ELSE <<>>

\* repr of a float: at least one digit after the point
FloatChars(h) ==
    SignChars(h) \o Digits(Abs(h) \div 100) \o <<".">>
        \o Digits((Abs(h) % 100) \div 10)
        \o (IF Abs(h) % 10 = 0 THEN <<>> ELSE Digits(Abs(h) % 10))

\* repr(value); the items of a list or dict are joined by ", "
RECURSIVE Repr(_)
RECURSIVE ReprItems(_, _)
ReprItems(items, of_dict) ==
    IF items = <<>> THEN <<>>
    ELSE (IF of_dict
          THEN Repr(PyStr(items[1][1])) \o <<":", " ">> \o Repr(items[1][2])
          ELSE Repr(items[1]))
         \o (IF Len(items) > 1
             THEN <<",", " ">> \o ReprItems(Tail(items), of_dict)
             ELSE <<>>)

Repr(value) ==
    CASE value[1] = "none" -> <<"N", "o", "n", "e">>
      [] value[1] = "bool" -> IF value[2] THEN <<"T", "r", "u", "e">>
                              ELSE <<"F", "a", "l", "s", "e">>
      [] value[1] = "int" -> SignChars(value[2]) \o Digits(Abs(value[2]))
      [] value[1] = "float" -> FloatChars(value[2])
      [] value[1] = "str" -> <<"'">> \o value[2] \o <<"'">>
      [] value[1] = "list" -> <<"[">> \o ReprItems(value[2], FALSE) \o <<"]">>
      [] value[1] = "dict" -> <<"{">> \o ReprItems(value[2], TRUE) \o <<"}">>

\* str(value)
Str(value) == IF value[1] = "str" THEN value[2] ELSE Repr(value)

\* the position of the first occurrence of character c in s after
\* position i, or 0
RECURSIVE Find(_, _, _)
Find(s, c, i) ==
    IF i >= Len(s) THEN 0
    ELSE IF s[i + 1] = c THEN i + 1
    ELSE Find(s, c, i + 1)

\* the parts of s behind position i; p is the next separator.  (Here and
\* below a value that is used more than once is bound over a singleton
\* set, so that it is computed once.)
RECURSIVE SplitFrom(_, _, _)
SplitFrom(s, sep, i) ==
    CHOOSE parts \in
        {IF p = 0 THEN <<SubSeq(s, i + 1, Len(s))>>
         ELSE <<SubSeq(s, i + 1, p - 1)>> \o SplitFrom(s, sep, p) :
            p \in {Find(s, sep, i)}} : TRUE

\* s.split(sep) for a separator of one character
Split(s, sep) == SplitFrom(s, sep, 0)

\* the lookup loop of replace_var: the value the parts lead to from
\* value, or None as soon as a part is asked of something that is no dict
RECURSIVE Walk(_, _)
Walk(value, parts) ==
    IF parts = <<>> THEN Some(value)
    ELSE IF IsDict(value)
         THEN CHOOSE found \in {Walk(next, rest) :
                                    next \in {Get(value, Head(parts))},
                                    rest \in {Tail(parts)}} : TRUE
    ELSE None

(***************************************************************************)
(* Templates                                                               *)
(***************************************************************************)
\* replace_var: match is the text of the placeholder, braces included; it
\* is replaced by str() of the value its dotted path leads to, and left as
\* it is when the path leads nowhere or to None
ReplaceVar(match, context) ==
    CHOOSE text \in
        {IF found = None \/ The(found)[1] = "none" THEN match
         ELSE Str(The(found)) :
            found \in {Walk(context, parts) :
                          parts \in {Split(SubSeq(match, 2, Len(match) - 1),
                                           ".")}}} : TRUE

\* the pattern \{([^}]+)\} matches at position i of the template: a "{",
\* one or more characters that are not "}", and a "}"
MatchesAt(template, i) ==
    /\ template[i] = "{"
    /\ Find(template, "}", i) >= i + 2

\* re.sub from position i on: the leftmost match is replaced and the scan
\* goes on behind it; what was put in is not scanned again
RECURSIVE Sub(_, _, _)
Sub(template, i, context) ==
    IF i > Len(template) THEN <<>>
    ELSE IF MatchesAt(template, i)
         THEN CHOOSE text \in
                  {ReplaceVar(SubSeq(template, i, close), context)
                       \o Sub(template, close + 1, context) :
                      close \in {Find(template, "}", i)}} : TRUE
    ELSE <<template[i]>> \o Sub(template, i + 1, context)

\* _resolve_template_string, on the characters of the string
ResolveTemplateString(template, context) == Sub(template, 1, context)

\* _resolve_template_vars: dicts and lists are resolved item by item,
\* strings by _resolve_template_string, anything else is returned as it is
RECURSIVE ResolveTemplateVars(_, _)
ResolveTemplateVars(data, context) ==
    CASE data[1] = "dict" ->
             PyDict([k \in DOMAIN data[2] |->
                        <<data[2][k][1],
                          ResolveTemplateVars(data[2][k][2], context)>>])
      [] data[1] = "list" ->
             PyList([k \in DOMAIN data[2] |->
                        ResolveTemplateVars(data[2][k], context)])
      [] data[1] = "str" -> PyStr(ResolveTemplateString(data[2], context))
      [] OTHER -> data

(***************************************************************************)
(* _evaluate_condition                                                     *)
(***************************************************************************)
\* condition.strip(): the spaces at both ends are dropped
RECURSIVE Strip(_)
Strip(s) ==
    IF s = <<>> THEN s
    ELSE IF Head(s) = " " THEN Strip(Tail(s))
    ELSE IF s[Len(s)] = " " THEN Strip(SubSeq(s, 1, Len(s) - 1))
    ELSE s

\* the characters of the class [><=!]
OperatorChars == {">", "<", "=", "!"}

\* the last position of the run of characters of class cls that starts at
\* position j of s
RECURSIVE RunEnd(_, _, _)
RunEnd(s, j, cls) ==
    IF j < Len(s) /\ s[j + 1] \in cls THEN RunEnd(s, j + 1, cls) ELSE j

\* the first position after i that holds no space, or 0
SkipSpaces(s, i) ==
    IF \E j \in (i + 1)..Len(s) : s[j] # " "
    THEN CHOOSE j \in (i + 1)..Len(s) :
             s[j] # " " /\ \A k \in (i + 1)..(j - 1) : s[k] = " "
    ELSE 0

\* \s*([><=!]+)\s*(.+) matches what follows position i: after the spaces
\* comes a run of operator characters, and something is left behind it,
\* if need be the last character of that run
TailMatches(s, i) ==
    /\ SkipSpaces(s, i) # 0
    /\ s[SkipSpaces(s, i)] \in OperatorChars
    /\ \/ RunEnd(s, SkipSpaces(s, i), OperatorChars) < Len(s)
       \/ RunEnd(s, SkipSpaces(s, i), OperatorChars) > SkipSpaces(s, i)

\* the positions at which the group (\S+), which starts at position 3,
\* may end so that the rest of the pattern matches
PathEnds(s) ==
    {i \in 3..Len(s) : /\ \A k \in 3..i : s[k] # " "
                       /\ TailMatches(s, i)}

\* re.match(r"\$\.(\S+)\s*([><=!]+)\s*(.+)", s) succeeds
Matches(s) ==
    /\ Len(s) >= 2
    /\ s[1] = "$"
    /\ s[2] = "."
    /\ PathEnds(s) # {}

\* the three groups of the match: (\S+) is greedy and takes the longest
\* path that lets the rest match, ([><=!]+) takes the whole run of
\* operator characters unless nothing would be left for (.+)
Groups(s) ==
    LET i == CHOOSE e \in PathEnds(s) : \A f \in PathEnds(s) : f <= e
        j == SkipSpaces(s, i)
        r == RunEnd(s, j, OperatorChars)
        k == IF r < Len(s) THEN r ELSE r - 1
    IN [path |-> SubSeq(s, 3, i),
        operator |-> SubSeq(s, j, k),
        expected |-> Strip(SubSeq(s, k + 1, Len(s)))]

\* the lookup loop of _evaluate_condition: a part asked of something that
\* is no dict gives None
RECURSIVE ActualValue(_, _)
ActualValue(value, parts) ==
    IF parts = <<>> THEN value
    ELSE IF IsDict(value) THEN ActualValue(Get(value, Head(parts)), Tail(parts))
    ELSE PyNone

\* str.lower(), character by character, for the letters of the three
\* words the result is compared with
Lower(c) ==
    CASE c = "T" -> "t" [] c = "R" -> "r" [] c = "U" -> "u" [] c = "E" -> "e"
      [] c = "F" -> "f" [] c = "A" -> "a" [] c = "L" -> "l" [] c = "S" -> "s"
      [] c = "N" -> "n" [] OTHER -> c
LowerChars(s) == [k \in DOMAIN s |-> Lower(s[k])]

\* the value of a run of decimal digits
DigitValue(c) == (CHOOSE d \in DOMAIN DigitChars : DigitChars[d] = c) - 1
RECURSIVE Natural(_)
Natural(s) ==
    IF s = <<>> THEN 0
    ELSE 10 * Natural(SubSeq(s, 1, Len(s) - 1)) + DigitValue(s[Len(s)])

\* float() takes the string as a plain decimal: an optional sign, then
\* digits with at most one point among them
IsDecimal(s) ==
    LET body == IF s # <<>> /\ Head(s) \in {"-", "+"} THEN Tail(s) ELSE s
        digits == {k \in DOMAIN body : body[k] \in
                       {DigitChars[d] : d \in DOMAIN DigitChars}}
        points == {k \in DOMAIN body : body[k] = "."}
    IN /\ digits # {}
       /\ digits \cup points = DOMAIN body
       /\ Cardinality(points) <= 1

\* float(s) of such a string, in hundredths (the literals explored have at
\* most two decimals)
FloatOf(s) ==
    LET body == IF Head(s) \in {"-", "+"} THEN Tail(s) ELSE s
        p == IF Find(body, ".", 0) = 0 THEN Len(body) + 1
             ELSE Find(body, ".", 0)
        whole == Natural(SubSeq(body, 1, p - 1))
        frac == SubSeq(body, p + 1, Len(body))
        hundredths == IF Len(frac) = 0 THEN 0
                      ELSE IF Len(frac) = 1 THEN 10 * Natural(frac)
                      ELSE Natural(SubSeq(frac, 1, 2))
    IN (IF Head(s) = "-" THEN 0 - 1 ELSE 1) * (100 * whole + hundredths)

\* a conversion that keeps the double quotes of a string
ExpectedValueQuoted(s) ==
    IF LowerChars(s) = <<"t", "r", "u", "e">> THEN PyBool(TRUE)
    ELSE IF LowerChars(s) = <<"f", "a", "l", "s", "e">> THEN PyBool(FALSE)
    ELSE IF LowerChars(s) = <<"n", "u", "l", "l">> THEN PyNone
    ELSE IF IsDecimal(s) THEN PyFloat(FloatOf(s))
    ELSE PyStr(s)

\* the conversion of the expected value: true, false, null, a string in
\* double quotes, a float, or else the text itself
ExpectedValue(s) ==
    IF LowerChars(s) = <<"t", "r", "u", "e">> THEN PyBool(TRUE)
    ELSE IF LowerChars(s) = <<"f", "a", "l", "s", "e">> THEN PyBool(FALSE)
    ELSE IF LowerChars(s) = <<"n", "u", "l", "l">> THEN PyNone
    ELSE IF Head(s) = "\"" /\ s[Len(s)] = "\""
         THEN PyStr(SubSeq(s, 2, Len(s) - 1))
    ELSE IF IsDecimal(s) THEN PyFloat(FloatOf(s))
    ELSE PyStr(s)

\* bool, int and float compare by their numeric value, here in hundredths
IsNumber(value) == value[1] \in {"bool", "int", "float"}
Number(value) ==
    CASE value[1] = "bool" -> IF value[2] THEN 100 ELSE 0
      [] value[1] = "int" -> 100 * value[2]
      [] value[1] = "float" -> value[2]

\* the code points of the characters whose order is used
CodePoints ==
    <<" ", "!", "\"", "$", "'", "+", "-", ".", "0", "1", "2", "3", "4", "5",
      "6", "7", "8", "9", "<", "=", ">", "a", "b", "c", "d", "e", "f", "g",
      "h", "i", "j", "k", "l", "m", "n", "o", "p", "q", "r", "s", "t", "u",
      "v", "w", "x", "y", "z", "{", "}">>
Ord(c) == CHOOSE n \in DOMAIN CodePoints : CodePoints[n] = c

\* a < b for strings: by the first character in which they differ
RECURSIVE StrLess(_, _)
StrLess(a, b) ==
    IF b = <<>> THEN FALSE
    ELSE IF a = <<>> THEN TRUE
    ELSE IF Head(a) = Head(b) THEN StrLess(Tail(a), Tail(b))
    ELSE Ord(Head(a)) < Ord(Head(b))

\* a == b
PyEq(a, b) ==
    IF IsNumber(a) /\ IsNumber(b) THEN Number(a) = Number(b)
    ELSE a[1] = b[1] /\ a = b

\* a < b is defined: both are numbers, or both are strings
Ordered(a, b) ==
    \/ IsNumber(a) /\ IsNumber(b)
    \/ a[1] = "str" /\ b[1] = "str"

\* a < b where it is defined
PyLess(a, b) ==
    IF IsNumber(a) THEN Number(a) < Number(b) ELSE StrLess(a[2], b[2])

\* the operators _evaluate_condition knows
Operators ==
    {<<">">>, <<"<">>, <<">", "=">>, <<"<", "=">>, <<"=", "=">>, <<"!", "=">>}

\* what a call does: it returns a bool or raises an exception
Returns(b) == [raises |-> None, returns |-> Some(b)]
Raises(e) == [raises |-> Some(e), returns |-> None]

\* faulty variant of Compare: operands that have no order compare as false
CompareUnorderedIsFalse(actual, operator, expected) ==
    IF operator \notin Operators THEN Raises("ValueError: Unknown operator")
    ELSE IF operator = <<"=", "=">> THEN Returns(PyEq(actual, expected))
    ELSE IF operator = <<"!", "=">> THEN Returns(~PyEq(actual, expected))
    ELSE IF ~Ordered(actual, expected) THEN Returns(FALSE)
    ELSE IF operator = <<">">> THEN Returns(PyLess(expected, actual))
    ELSE IF operator = <<"<">> THEN Returns(PyLess(actual, expected))
    ELSE IF operator = <<">", "=">> THEN Returns(~PyLess(actual, expected))
    ELSE Returns(~PyLess(expected, actual))

\* the comparison at the end of _evaluate_condition
Compare(actual, operator, expected) ==
    IF operator \notin Operators THEN Raises("ValueError: Unknown operator")
    ELSE IF operator = <<"=", "=">> THEN Returns(PyEq(actual, expected))
    ELSE IF operator = <<"!", "=">> THEN Returns(~PyEq(actual, expected))
    ELSE IF ~Ordered(actual, expected) THEN Raises("TypeError")
    ELSE IF operator = <<">">> THEN Returns(PyLess(expected, actual))
    ELSE IF operator = <<"<">> THEN Returns(PyLess(actual, expected))
    ELSE IF operator = <<">", "=">> THEN Returns(~PyLess(actual, expected))
    ELSE Returns(~PyLess(expected, actual))

\* _evaluate_condition(condition, context)
EvaluateCondition(condition, context) ==
    IF ~Matches(Strip(condition))
    THEN Raises("ValueError: Invalid condition format")
    ELSE Compare(ActualValue(context,
                             Split(Groups(Strip(condition)).path, ".")),
                 Groups(Strip(condition)).operator,
                 ExpectedValue(Groups(Strip(condition)).expected))

(***************************************************************************)
(* The workflow context as the Python dict the executors are handed.       *)
(***************************************************************************)
\* a string of the model as the chars of a Python string: one element
Chars(s) == <<s>>

\* f"step_{k}" as chars
StepKeyChars(k) == <<"step_">> \o Digits(k)

\* the output of a leaf executor, or the {skipped, branch} dict of a
\* conditional step without the branch, as a Python dict
PyLeaf(output) ==
    IF "response" \in DOMAIN output
    THEN PyDict(<< <<Chars("response"), PyStr(Chars(output.response))>>,
                   <<Chars("task_id"), PyStr(Digits(output.task_id))>> >>)
    ELSE IF "body" \in DOMAIN output
    THEN PyDict(<< <<Chars("status"), PyInt(output.status)>>,
                   <<Chars("body"), PyStr(Chars(output.body))>> >>)
    ELSE IF "skipped" \in DOMAIN output
    THEN PyDict(<< <<Chars("skipped"), PyBool(output.skipped)>>,
                   <<Chars("branch"), PyStr(Chars(output.branch))>> >>)
    ELSE PyDict(<< <<Chars("result"), PyStr(Chars(output.result))>> >>)

\* the output of a parallel step: the keys step_k in the order in which
\* the comprehension inserted them
PyParallel(output) ==
    LET ks == {key[2] : key \in DOMAIN output}
        kth(i) == CHOOSE k \in ks : Cardinality({j \in ks : j <= k}) = i
    IN PyDict([i \in 1..Cardinality(ks) |->
                  <<StepKeyChars(kth(i)), PyLeaf(output[<<"step", kth(i)>>])>>])

\* the output of a conditional step
PyConditional(output) ==
    PyDict(<< <<Chars("condition_result"), PyBool(output.condition_result)>>,
              <<Chars("branch_taken"), PyStr(Chars(output.branch_taken))>>,
              <<Chars("result"), PyLeaf(output.result)>> >>)

\* the output a step of the given definition has stored in the context;
\* what _apply_output_mapping returned is a Python dict already
PyOutput(step, output) ==
    CASE step.type = "parallel" -> PyParallel(output)
      [] step.type = "conditional" -> PyConditional(output)
      [] HasOutputMapping(step) -> output
      [] OTHER -> PyLeaf(output)

\* the context {"input": input_data, **context, name: output, ...} of the
\* run: the input, the caller's entries, and the outputs of the steps
\* that have stored one, in the order of the steps
PyContext(workflow_context) ==
    PyDict(
        << <<Chars("input"),
             PyDict(<< <<Chars("x"),
                         PyStr(Chars(workflow_context["input"].x))>> >>)>> >>
        \o (IF "user" \in DOMAIN workflow_context
            THEN << <<Chars("user"), PyStr(Chars(workflow_context["user"]))>> >>
            ELSE <<>>)
        \o [i \in 1..Cardinality({j \in DOMAIN RunSteps :
                                    RunSteps[j].name \in DOMAIN workflow_context}) |->
               <<Chars(RunSteps[i].name),
                 PyOutput(RunSteps[i], workflow_context[RunSteps[i].name])>>])

(***************************************************************************)
(* _apply_output_mapping, and the agent executor on a step that has an     *)
(* output_mapping: the step execution is committed as completed before     *)
(* the mapping is applied inside the same try block.                       *)
(***************************************************************************)
\* path.startswith("$.")
StartsWithRoot(path) == Len(path) >= 2 /\ path[1] = "$" /\ path[2] = "."

\* the value one entry of the mapping extracts from data
Extract(data, path) ==
    IF StartsWithRoot(path)
    THEN ActualValue(data, Split(SubSeq(path, 3, Len(path)), "."))
    ELSE Get(data, path)

\* _apply_output_mapping(data, mapping): mapping.items() needs a dict and
\* path.startswith a string, anything else raises AttributeError
ApplyOutputMapping(data, mapping) ==
    IF ~IsDict(mapping) THEN Raises("AttributeError")
    ELSE IF \E k \in DOMAIN mapping[2] : mapping[2][k][2][1] # "str"
         THEN Raises("AttributeError")
    ELSE Returns(PyDict([k \in DOMAIN mapping[2] |->
                            <<mapping[2][k][1],
                              Extract(data, mapping[2][k][2][2])>>]))

\* the agent steps with an output_mapping explored: G extracts the
\* response, the task id and a field the output does not have; F has a
\* mapping that is None or names a path that is no string
MappedPool ==
    {[type |-> "agent", name |-> "G", agent_id |-> "a1", max_retries |-> None,
      output_mapping |->
          PyDict(<< <<Chars("answer"), PyStr(<<"$", ".", "response">>)>>,
                    <<Chars("id"), PyStr(<<"task_id">>)>>,
                    <<Chars("deep"),
                      PyStr(<<"$", ".", "response", ".", "text">>)>> >>)]}
    \cup
    {[type |-> "agent", name |-> "F", agent_id |-> "a1", max_retries |-> m,
      output_mapping |-> mapping] :
        m \in {None, Some(1)},
        mapping \in {PyNone, PyDict(<< <<Chars("answer"), PyInt(1)>> >>)}}

\* the call of _apply_output_mapping on the output of the current step
MappedOutput(output) ==
    ApplyOutputMapping(PyLeaf(output), CurrentStep.output_mapping)

\* the agent answers r and the mapping can be applied: the step execution
\* is completed with the agent's output, the mapped output is returned to
\* _execute_steps, which stores it under the step's name
StepSucceedsMapped(r) ==
    /\ AtCapability
    /\ HasOutputMapping(CurrentStep)
    /\ r \in Responses[CurrentStep.type]
    /\ \E output \in {StepOutput(CurrentStep, r, Len(agent_tasks))} :
       \E mapped \in {MappedOutput(output)} :
          /\ mapped.raises = None
          /\ step_executions' = [step_executions EXCEPT ![run.step_execution] =
                 CompletedStep(@, output, Now)]
          /\ run' = [run EXCEPT !.pc = "steps", !.idx = @ + 1, !.calls = @ + 1,
                                !.workflow_context =
                                    UpdateContext(@, CurrentStep.name,
                                                  The(mapped.returns)),
                                !.outputs = Append(@, The(mapped.returns))]
    /\ agent_tasks' = FinishTask(agent_tasks, CurrentStep, "completed")
    /\ clock' = Now
    /\ response' = NoResponse
    /\ UNCHANGED <<workflows, executions, cancel>>

\* the agent answers r: task and step execution are committed as
\* completed, then _apply_output_mapping raises
StepCompletedUnmapped(r) ==
    /\ AtCapability
    /\ HasOutputMapping(CurrentStep)
    /\ r \in Responses[CurrentStep.type]
    /\ \E output \in {StepOutput(CurrentStep, r, Len(agent_tasks))} :
       \E mapped \in {MappedOutput(output)} :
          /\ mapped.raises # None
          /\ step_executions' = [step_executions EXCEPT ![run.step_execution] =
                 CompletedStep(@, output, Now)]
          /\ run' = [run EXCEPT !.pc = "mapping", !.calls = @ + 1,
                                !.error = mapped.raises]
    /\ agent_tasks' = FinishTask(agent_tasks, CurrentStep, "completed")
    /\ clock' = Now
    /\ response' = NoResponse
    /\ UNCHANGED <<workflows, executions, cancel>>

\* the except handler of _execute_agent_step after the mapping has raised:
\* task and step execution are marked failed, then comes the retry logic
MappingRaises ==
    /\ run.pc = "mapping"
    /\ step_executions' = [step_executions EXCEPT ![run.step_execution] =
           FailedStep(@, The(run.error), Now)]
    /\ agent_tasks' = FinishTask(agent_tasks, CurrentStep, "failed")
    /\ clock' = Now
    /\ run' = [run EXCEPT !.pc = "retry"]
    /\ response' = NoResponse
    /\ UNCHANGED <<workflows, executions, cancel>>

(***************************************************************************)
(* _execute_parallel_step.  Its sub-steps run as asyncio tasks, kept in    *)
(* run.tasks in declaration order; each task is an invocation of           *)
(* _execute_single_step.  A sub-task reads the clock without advancing it. *)
(***************************************************************************)
\* the sub-steps a parallel step may be built from
SubStepPool ==
    {[type |-> "agent", name |-> "S", agent_id |-> "a1", max_retries |-> None,
      input |-> PyDict(<< <<Chars("instruction"),
                            PyStr(<<"{", "A", ".", "response", "}", "/",
                                    "{", "T", ".", "result", "}">>)>> >>)],
     [type |-> "mcp_tool", name |-> "T", agent_id |-> "",
      max_retries |-> Some(1),
      input |-> PyDict(<< <<Chars("query"),
                            PyStr(<<"{", "S", ".", "response", "}">>)>> >>)],
     [type |-> "http", name |-> "U", agent_id |-> "", max_retries |-> None,
      input |-> PyDict(<< <<Chars("url"),
                            PyStr(<<"http://h/",
                                    "{", "input", ".", "x", "}">>)>> >>)],
     [type |-> "parallel", name |-> "N", agent_id |-> "",
      max_retries |-> None, input |-> PyDict(<<>>)]}

\* the order in which the sub-steps of the pool are declared
SubStepOrder == <<"S", "T", "U", "N">>
SubRank(name) == CHOOSE k \in DOMAIN SubStepOrder : SubStepOrder[k] = name

\* the values of wait_for explored, as the tokens of the string: "all",
\* "any", "count:2", and "each", which is none of the documented policies
WaitFors == {<<"all">>, <<"any">>, <<"count", 2>>, <<"each">>}

\* values of wait_for the selection of the wait strategy cannot read: None,
\* which has no startswith, and "count:x", whose int() fails
UnreadableWaitFors == {<<"none">>, <<"count:", <<"x">>>>}

\* the exception raised while the wait strategy is selected from wait_for
WaitForError(wait_for) ==
    IF wait_for[1] = "none" THEN Some("AttributeError")
    ELSE IF wait_for[1] = "count:" THEN Some("ValueError")
    ELSE None

\* the tasks of the current parallel step were created and the executor
\* raised before awaiting them: they stay scheduled on the event loop
Abandoned ==
    /\ run.pc \in {"except", "reraise", "done"}
    /\ run.idx \in DOMAIN RunSteps
    /\ CurrentStep.type = "parallel"
    /\ WaitForError(CurrentStep.wait_for) # None
    /\ run.tasks # <<>>

\* the parallel steps explored: up to MaxSubSteps sub-steps that follow
\* each other in the pool, under every value of wait_for
ParallelPool ==
    {[type |-> "parallel", name |-> "P", agent_id |-> "",
      max_retries |-> None, steps |-> s, wait_for |-> w] :
        s \in {q \in UNION {[1..n -> SubStepPool] : n \in 1..MaxSubSteps} :
                  \A i, j \in DOMAIN q :
                      j = i + 1 => SubRank(q[j].name) = SubRank(q[i].name) + 1},
        w \in WaitFors}

\* asyncio.create_task(self._execute_single_step(...)): a task that has
\* not run yet
NewTask ==
    [pc |-> "start", step_execution |-> 0, task |-> 0, depth |-> 1,
     input_data |-> None, result |-> None, error |-> None]

\* the step task i executes: the i-th sub-step of a parallel step, or the
\* branch of a conditional step that the condition has selected
SubStep(i) ==
    IF CurrentStep.type = "conditional"
    THEN The(IF The(run.condition_result) THEN CurrentStep.if_true
             ELSE CurrentStep.if_false)
    ELSE CurrentStep.steps[i]

\* task i has finished, with a result or with an exception
Done(i) == run.tasks[i].pc = "done"

\* every task has run up to its first await: tasks run in the order of
\* their creation, and none is resumed before the last of them has started
AllStarted ==
    \A j \in DOMAIN run.tasks :
        ~(run.tasks[j].pc = "start" /\ run.tasks[j].depth = 1)

\* task i may run its next segment
Runnable(i) ==
    /\ (run.pc = "wait" \/ Abandoned)
    /\ i \in DOMAIN run.tasks
    /\ IF run.tasks[i].pc = "start" /\ run.tasks[i].depth = 1
       THEN \A j \in 1..(i - 1) :
               ~(run.tasks[j].pc = "start" /\ run.tasks[j].depth = 1)
       ELSE AllStarted

\* _execute_parallel_step inserts its step execution with status running
CreateParallelStepExecution ==
    /\ run.pc = "dispatch"
    /\ CurrentStep.type = "parallel"
    /\ step_executions' = Append(step_executions,
           NewStepExecution(run.tenant_id, run.execution, CurrentStep, Now))
    /\ clock' = Now
    /\ run' = [run EXCEPT !.pc = "spawn",
                          !.step_execution = Len(step_executions) + 1]
    /\ response' = NoResponse
    /\ UNCHANGED <<workflows, executions, agent_tasks, cancel>>

\* one task per sub-step is created, then the executor awaits them
SpawnTasks ==
    /\ run.pc = "spawn"
    /\ WaitForError(CurrentStep.wait_for) = None
    /\ run' = [run EXCEPT !.pc = "wait",
                          !.tasks = [i \in DOMAIN CurrentStep.steps |-> NewTask],
                          !.finished = <<>>]
    /\ response' = NoResponse
    /\ UNCHANGED <<workflows, executions, step_executions, agent_tasks,
                   cancel, clock>>

\* _execute_single_step: a sub-step that is not agent, mcp_tool or http
\* raises ValueError in its task
SubUnknownStepType(i) ==
    /\ Runnable(i)
    /\ run.tasks[i].pc = "start"
    /\ SubStep(i).type \notin LeafTypes
    /\ run' = [run EXCEPT !.tasks[i].pc = "done",
                          !.tasks[i].error = Some("Unknown step type"),
                          !.finished = Append(@, i)]
    /\ response' = NoResponse
    /\ UNCHANGED <<workflows, executions, step_executions, agent_tasks,
                   cancel, clock>>

\* the leaf executor of task i inserts its step execution with status running
SubCreateStepExecution(i) ==
    /\ Runnable(i)
    /\ run.tasks[i].pc = "start"
    /\ SubStep(i).type \in LeafTypes
    /\ step_executions' = Append(step_executions,
           NewStepExecution(run.tenant_id, run.execution, SubStep(i), Now))
    /\ clock' = Now
    /\ run' = [run EXCEPT !.tasks[i].pc = "invoke",
                          !.tasks[i].step_execution = Len(step_executions) + 1]
    /\ response' = NoResponse
    /\ UNCHANGED <<workflows, executions, agent_tasks, cancel>>

\* self._resolve_template_vars(step.get("input", {}), workflow_context) in
\* task i
ResolvedInput(i) ==
    CHOOSE resolved \in {ResolveTemplateVars(data, context) :
                             data \in {SubStep(i).input},
                             context \in {PyContext(run.workflow_context)}} :
        TRUE

\* _execute_agent_step in task i: the templates of the input are resolved,
\* the agent is loaded and its AgentTask is inserted
SubLoadAgent(i) ==
    /\ Runnable(i)
    /\ run.tasks[i].pc = "invoke"
    /\ SubStep(i).type = "agent"
    /\ SubStep(i).agent_id \in Agents[run.tenant_id]
    /\ agent_tasks' = Append(agent_tasks,
           NewAgentTask(run.tenant_id, SubStep(i).agent_id, run.execution))
    /\ run' = [run EXCEPT !.tasks[i].pc = "call",
                          !.tasks[i].task = Len(agent_tasks) + 1,
                          !.tasks[i].input_data = Some(ResolvedInput(i))]
    /\ response' = NoResponse
    /\ UNCHANGED <<workflows, executions, step_executions, cancel, clock>>

\* the executor of task i is about to await its capability
SubAtCapability(i) ==
    /\ Runnable(i)
    /\ \/ run.tasks[i].pc = "call" /\ SubStep(i).type = "agent"
       \/ run.tasks[i].pc = "invoke" /\ SubStep(i).type \in {"mcp_tool", "http"}

\* faulty variant of SubInput: the templates also see the outputs of the
\* sibling sub-steps that have finished
SubInputSeeingSiblings(i) ==
    LET done == SelectSeq([j \in DOMAIN run.tasks |-> j],
                          LAMBDA j : Done(j) /\ run.tasks[j].result # None)
        siblings == [k \in DOMAIN done |->
                        <<Chars(SubStep(done[k]).name),
                          PyLeaf(The(run.tasks[done[k]].result))>>]
    IN IF SubStep(i).type = "agent"
       THEN run.tasks[i].input_data
       ELSE Some(ResolveTemplateVars(
                     SubStep(i).input,
                     PyDict(PyContext(run.workflow_context)[2] \o siblings)))

\* the input the capability of task i is called with: resolved when the
\* agent was loaded, or right before the tool or the request is awaited
SubInput(i) ==
    IF SubStep(i).type = "agent"
    THEN run.tasks[i].input_data
    ELSE Some(ResolvedInput(i))

\* the AgentTask of task i, if it has one, gets the status
FinishSubTask(rows, i, status) ==
    IF run.tasks[i].task # 0
    THEN [rows EXCEPT ![run.tasks[i].task].status = status]
    ELSE rows

\* the capability of task i answers r: its step execution is completed and
\* the task ends with the step's output
SubStepSucceeds(i, r) ==
    /\ SubAtCapability(i)
    /\ r \in Responses[SubStep(i).type]
    /\ LET output == StepOutput(SubStep(i), r, run.tasks[i].task) IN
       /\ step_executions' = [step_executions EXCEPT
              ![run.tasks[i].step_execution] = CompletedStep(@, output, Now)]
       /\ run' = [run EXCEPT !.tasks[i].pc = "done",
                             !.tasks[i].input_data = SubInput(i),
                             !.tasks[i].result = Some(output),
                             !.finished = Append(@, i)]
    /\ agent_tasks' = FinishSubTask(agent_tasks, i, "completed")
    /\ response' = NoResponse
    /\ UNCHANGED <<workflows, executions, cancel, clock>>

\* the capability of task i raises err: its step execution is marked failed
SubStepFails(i, err) ==
    /\ SubAtCapability(i)
    /\ step_executions' = [step_executions EXCEPT
           ![run.tasks[i].step_execution] = FailedStep(@, err, Now)]
    /\ agent_tasks' = FinishSubTask(agent_tasks, i, "failed")
    /\ run' = [run EXCEPT !.tasks[i].pc = IF SubStep(i).type \in RetryingTypes
                                          THEN "retry" ELSE "done",
                          !.tasks[i].input_data = SubInput(i),
                          !.tasks[i].error = Some(err),
                          !.finished = IF SubStep(i).type \in RetryingTypes
                                       THEN @ ELSE Append(@, i)]
    /\ response' = NoResponse
    /\ UNCHANGED <<workflows, executions, cancel, clock>>

\* retry logic in task i: retry_count += 1 and the executor calls itself
SubRetry(i) ==
    /\ Runnable(i)
    /\ run.tasks[i].pc = "retry"
    /\ ShouldRetry(step_executions[run.tasks[i].step_execution].retry_count,
                   SubStep(i))
    /\ step_executions' = [step_executions EXCEPT
           ![run.tasks[i].step_execution].retry_count = @ + 1]
    /\ run' = IF run.tasks[i].depth < RecursionLimit
              THEN [run EXCEPT !.tasks[i].pc = "start",
                               !.tasks[i].depth = @ + 1,
                               !.tasks[i].task = 0,
                               !.tasks[i].error = None]
              ELSE [run EXCEPT !.tasks[i].pc = "done",
                               !.tasks[i].error = Some("RecursionError"),
                               !.finished = Append(@, i)]
    /\ response' = NoResponse
    /\ UNCHANGED <<workflows, executions, agent_tasks, cancel, clock>>

\* retry logic in task i: the budget is spent, the task ends with the error
SubGiveUp(i) ==
    /\ Runnable(i)
    /\ run.tasks[i].pc = "retry"
    /\ ~ShouldRetry(step_executions[run.tasks[i].step_execution].retry_count,
                    SubStep(i))
    /\ run' = [run EXCEPT !.tasks[i].pc = "done", !.finished = Append(@, i)]
    /\ response' = NoResponse
    /\ UNCHANGED <<workflows, executions, step_executions, agent_tasks,
                   cancel, clock>>

\* f"step_{k}" for the k-th element of results (enumerate counts from 0)
StepKey(k) == <<"step", k - 1>>

\* the tasks that have finished
DoneTasks == {i \in DOMAIN run.tasks : Done(i)}

\* the declaration order of the tasks: the order of gather's results
Declared == [i \in DOMAIN run.tasks |-> i]

\* the orders in which a set of tasks can be iterated
Orders(S) ==
    {o \in [1..Cardinality(S) -> S] :
        \A i, j \in 1..Cardinality(S) : o[i] = o[j] => i = j}

\* the positions of results that hold an output, not an exception
Outputs(order) == {k \in DOMAIN order : run.tasks[order[k]].error = None}

\* faulty variant of CombineResults: the results are keyed in the order in
\* which the tasks finished
CombineResultsAsFinished(order) ==
    [key \in {StepKey(k) : k \in Outputs(run.finished)} |->
        The(run.tasks[run.finished[key[2] + 1]].result)]

\* output_data: the results that are not exceptions, keyed by position
CombineResults(order) ==
    [key \in {StepKey(k) : k \in Outputs(order)} |->
        The(run.tasks[order[key[2] + 1]].result)]

\* faulty variant of ErrorsOf: only the first exception is kept
ErrorsOfFirst(order) ==
    IF Outputs(order) = DOMAIN order THEN <<>>
    ELSE LET pos == CHOOSE p \in DOMAIN order \ Outputs(order) :
                        \A q \in DOMAIN order \ Outputs(order) : p <= q
         IN <<The(run.tasks[order[pos]].error)>>

\* errors: the exceptions among the results, in the order of the results
ErrorsOf(order) ==
    [k \in 1..Cardinality(DOMAIN order \ Outputs(order)) |->
        LET pos == CHOOSE p \in DOMAIN order \ Outputs(order) :
                       Cardinality({q \in DOMAIN order \ Outputs(order) :
                                       q <= p}) = k
        IN The(run.tasks[order[pos]].error)]

\* Exception(f"Parallel execution failed: {errors}")
ParallelError(errors) == <<"Parallel execution failed", errors>>

\* faulty variant of Threshold: the executor does not wait at all
ThresholdNone(wait_for, n) == 0

\* the number of finished tasks asyncio.wait is awaited for: one under any;
\* under count:N the loop goes on while fewer than N are done and some are
\* pending
Threshold(wait_for, n) ==
    IF wait_for[1] = "any" THEN 1
    ELSE IF wait_for[2] > n THEN n
    ELSE IF wait_for[2] < 1 THEN 1
    ELSE wait_for[2]

\* task.cancel() for every task that is still pending
CancelPending(tasks) ==
    [i \in DOMAIN tasks |->
        IF tasks[i].pc = "done" THEN tasks[i]
        ELSE [tasks[i] EXCEPT !.pc = "cancelled"]]

\* the parallel step is completed with output_data and returns it to
\* _execute_steps, which stores it under the step's name
CompleteParallel(output, tasks) ==
    /\ step_executions' = [step_executions EXCEPT ![run.step_execution] =
           CompletedStep(@, output, Now)]
    /\ run' = [run EXCEPT !.pc = "steps", !.idx = @ + 1,
                          !.workflow_context =
                              UpdateContext(@, CurrentStep.name, output),
                          !.outputs = Append(@, output),
                          !.tasks = tasks]
    /\ clock' = Now
    /\ response' = NoResponse
    /\ UNCHANGED <<workflows, executions, agent_tasks, cancel>>

\* the except branch of _execute_parallel_step: the step is marked failed
\* and the exception is raised to _execute_steps
FailParallel(err, tasks) ==
    /\ step_executions' = [step_executions EXCEPT ![run.step_execution] =
           FailedStep(@, err, Now)]
    /\ run' = [run EXCEPT !.pc = "except", !.error = Some(err),
                          !.tasks = tasks]
    /\ clock' = Now
    /\ response' = NoResponse
    /\ UNCHANGED <<workflows, executions, agent_tasks, cancel>>

\* the tasks are created, then the selection of the wait strategy raises
\* before anything is awaited: the handler marks the parallel step failed
\* and raises; the tasks are neither awaited nor cancelled
SpawnTasksRaises ==
    /\ run.pc = "spawn"
    /\ WaitForError(CurrentStep.wait_for) # None
    /\ FailParallel(The(WaitForError(CurrentStep.wait_for)),
                    [i \in DOMAIN CurrentStep.steps |-> NewTask])

\* faulty variant of GatherTasks: the exceptions fail the step under every
\* value of wait_for
GatherTasksStrict ==
    /\ run.pc = "wait"
    /\ CurrentStep.type = "parallel"
    /\ CurrentStep.wait_for[1] \notin {"any", "count"}
    /\ DoneTasks = DOMAIN run.tasks
    /\ IF ErrorsOf(Declared) # <<>>
       THEN FailParallel(ParallelError(ErrorsOf(Declared)), run.tasks)
       ELSE CompleteParallel(CombineResults(Declared), run.tasks)

\* wait_for is all, or none of the documented values: gather with
\* return_exceptions=True returns once every task has finished; the
\* exceptions fail the step only under all
GatherTasks ==
    /\ run.pc = "wait"
    /\ CurrentStep.type = "parallel"
    /\ CurrentStep.wait_for[1] \notin {"any", "count"}
    /\ DoneTasks = DOMAIN run.tasks
    /\ IF ErrorsOf(Declared) # <<>> /\ CurrentStep.wait_for[1] = "all"
       THEN FailParallel(ParallelError(ErrorsOf(Declared)), run.tasks)
       ELSE CompleteParallel(CombineResults(Declared), run.tasks)

\* wait_for is any or count:N: asyncio.wait returns the set of finished
\* tasks, the pending ones are cancelled, and task.result() is taken in
\* the iteration order of that set; the result of a failed task raises
WaitTasks ==
    /\ run.pc = "wait"
    /\ CurrentStep.type = "parallel"
    /\ CurrentStep.wait_for[1] \in {"any", "count"}
    /\ AllStarted
    /\ Cardinality(DoneTasks) >=
           Threshold(CurrentStep.wait_for, Len(run.tasks))
    /\ \E order \in Orders(DoneTasks) :
          IF Outputs(order) # DOMAIN order
          THEN FailParallel(
                   The(run.tasks[order[
                       CHOOSE k \in DOMAIN order \ Outputs(order) :
                           \A q \in DOMAIN order \ Outputs(order) : k <= q]].error),
                   CancelPending(run.tasks))
          ELSE CompleteParallel(CombineResults(order),
                                CancelPending(run.tasks))

(***************************************************************************)
(* _execute_conditional_step.  The branch is awaited as an invocation of   *)
(* _execute_single_step, kept in run.tasks as the only task.               *)
(***************************************************************************)
\* the steps a branch may be
BranchPool ==
    {[type |-> "agent", name |-> "B", agent_id |-> "a1", max_retries |-> None,
      input |-> PyDict(<< <<Chars("instruction"),
                            PyStr(<<"{", "A", ".", "response", "}">>)>> >>)],
     [type |-> "mcp_tool", name |-> "C", agent_id |-> "",
      max_retries |-> Some(1),
      input |-> PyDict(<< <<Chars("query"),
                            PyStr(<<"{", "input", ".", "x", "}">>)>> >>)],
     [type |-> "parallel", name |-> "N", agent_id |-> "",
      max_retries |-> None, input |-> PyDict(<<>>)]}
BranchNamed(name) == CHOOSE s \in BranchPool : s.name = name

\* the conditions explored, as the characters of the string:
\*   $.A.response == "yes"     the condition of the scenario
\*   $.A.response == yes       the literal is none of the grammar
\*   $.A.response = "yes"      the operator is none of the six
\*   $.A.response              no operator at all
\*   $.A.task_id > 0.5         a string is compared with a number
\*   $.A.x == null             A's output has no key x, or A did not run
\*   $.A.response.x != null    response is a string, x is asked of it
\*   $.A.response.x >= 1       the same path against a number
\*   $.A.x < 1                 the missing key against a number
Conditions ==
    {<<"$", ".", "A", ".", "response", " ", "=", "=", " ", "\"", "yes", "\"">>,
     <<"$", ".", "A", ".", "response", " ", "=", "=", " ", "yes">>,
     <<"$", ".", "A", ".", "response", " ", "=", " ", "\"", "yes", "\"">>,
     <<"$", ".", "A", ".", "response">>,
     <<"$", ".", "A", ".", "task_id", " ", ">", " ", "0", ".", "5">>,
     <<"$", ".", "A", ".", "x", " ", "=", "=", " ", "n", "u", "l", "l">>,
     <<"$", ".", "A", ".", "response", ".", "x", " ", "!", "=", " ",
       "n", "u", "l", "l">>,
     <<"$", ".", "A", ".", "response", ".", "x", " ", ">", "=", " ", "1">>,
     <<"$", ".", "A", ".", "x", " ", "<", " ", "1">>}

\* the conditional steps explored: if_true is B, a nested parallel step or
\* absent, if_false is C or absent
ConditionalPool ==
    {[type |-> "conditional", name |-> "K", agent_id |-> "",
      max_retries |-> None, condition |-> c, if_true |-> t, if_false |-> f] :
        c \in Conditions,
        t \in {None, Some(BranchNamed("B")), Some(BranchNamed("N"))},
        f \in {None, Some(BranchNamed("C"))}}

\* branch_name
BranchName(condition_result) == IF condition_result THEN "true" ELSE "false"

\* branch_step = step.get("if_true") or step.get("if_false")
BranchStep(step, condition_result) ==
    IF condition_result THEN step.if_true ELSE step.if_false

\* faulty variant of ConditionalOutput: the wrapper says the other branch
ConditionalOutputOtherBranch(condition_result, result) ==
    [condition_result |-> condition_result,
     branch_taken |-> BranchName(~condition_result), result |-> result]

\* output_data of the conditional step: the wrapper around the result
ConditionalOutput(condition_result, result) ==
    [condition_result |-> condition_result,
     branch_taken |-> BranchName(condition_result), result |-> result]

\* faulty variant of Skipped: the absent branch is reported as run
SkippedNot(branch_name) == [skipped |-> FALSE, branch |-> branch_name]

\* {"skipped": True, "branch": branch_name}
Skipped(branch_name) == [skipped |-> TRUE, branch |-> branch_name]

\* _execute_conditional_step inserts its step execution with status running
CreateConditionalStepExecution ==
    /\ run.pc = "dispatch"
    /\ CurrentStep.type = "conditional"
    /\ step_executions' = Append(step_executions,
           NewStepExecution(run.tenant_id, run.execution, CurrentStep, Now))
    /\ clock' = Now
    /\ run' = [run EXCEPT !.pc = "evaluate",
                          !.step_execution = Len(step_executions) + 1,
                          !.tasks = <<>>, !.finished = <<>>,
                          !.condition_result = None]
    /\ response' = NoResponse
    /\ UNCHANGED <<workflows, executions, agent_tasks, cancel>>

\* the condition, evaluated against the context of the run
Evaluated ==
    EvaluateCondition(CurrentStep.condition, PyContext(run.workflow_context))

\* the conditional step is completed with the wrapper around result and
\* returns it to _execute_steps, which stores it under the step's name
CompleteConditional(output) ==
    /\ step_executions' = [step_executions EXCEPT ![run.step_execution] =
           CompletedStep(@, output, Now)]
    /\ run' = [run EXCEPT !.pc = "steps", !.idx = @ + 1,
                          !.workflow_context =
                              UpdateContext(@, CurrentStep.name, output),
                          !.outputs = Append(@, output),
                          !.condition_result = Some(output.condition_result)]
    /\ clock' = Now
    /\ response' = NoResponse
    /\ UNCHANGED <<workflows, executions, agent_tasks, cancel>>

\* faulty variant of FailConditional: the exception is raised and the step
\* execution is left as it was
FailConditionalUnrecorded(err) ==
    /\ run' = [run EXCEPT !.pc = "except", !.error = Some(err)]
    /\ clock' = Now
    /\ response' = NoResponse
    /\ UNCHANGED <<workflows, executions, step_executions, agent_tasks, cancel>>

\* the except branch of _execute_conditional_step: the step is marked
\* failed and the exception is raised to _execute_steps
FailConditional(err) ==
    /\ step_executions' = [step_executions EXCEPT ![run.step_execution] =
           FailedStep(@, err, Now)]
    /\ run' = [run EXCEPT !.pc = "except", !.error = Some(err)]
    /\ clock' = Now
    /\ response' = NoResponse
    /\ UNCHANGED <<workflows, executions, agent_tasks, cancel>>

\* _evaluate_condition raises: no branch is looked at
ConditionRaises ==
    /\ run.pc = "evaluate"
    /\ Evaluated.raises # None
    /\ FailConditional(The(Evaluated.raises))

\* the condition selects a branch the step does not have: the step is
\* completed with {skipped, branch} as its result
SkipBranch ==
    /\ run.pc = "evaluate"
    /\ Evaluated.raises = None
    /\ BranchStep(CurrentStep, The(Evaluated.returns)) = None
    /\ CompleteConditional(
           ConditionalOutput(The(Evaluated.returns),
                             Skipped(BranchName(The(Evaluated.returns)))))

\* the condition selects a branch the step has: _execute_single_step is
\* awaited on it
EnterBranch ==
    /\ run.pc = "evaluate"
    /\ Evaluated.raises = None
    /\ BranchStep(CurrentStep, The(Evaluated.returns)) # None
    /\ run' = [run EXCEPT !.pc = "wait", !.tasks = <<NewTask>>,
                          !.finished = <<>>,
                          !.condition_result = Evaluated.returns]
    /\ response' = NoResponse
    /\ UNCHANGED <<workflows, executions, step_executions, agent_tasks,
                   cancel, clock>>

\* the branch has returned its output
BranchReturns ==
    /\ run.pc = "wait"
    /\ CurrentStep.type = "conditional"
    /\ Done(1)
    /\ run.tasks[1].error = None
    /\ CompleteConditional(ConditionalOutput(The(run.condition_result),
                                             The(run.tasks[1].result)))

\* the branch has raised
BranchRaises ==
    /\ run.pc = "wait"
    /\ CurrentStep.type = "conditional"
    /\ Done(1)
    /\ run.tasks[1].error # None
    /\ FailConditional(The(run.tasks[1].error))

(***************************************************************************)
(* get_execution_status                                                    *)
(***************************************************************************)
\* .order_by(WorkflowStepExecution.started_at) over the rows ids
RECURSIVE OrderByStartedAt(_)
OrderByStartedAt(ids) ==
    IF ids = {} THEN <<>>
    ELSE LET first == CHOOSE i \in ids : \A j \in ids :
                          \/ step_executions[i].started_at
                                 < step_executions[j].started_at
                          \/ /\ step_executions[i].started_at
                                    = step_executions[j].started_at
                             /\ i <= j
         IN <<first>> \o OrderByStartedAt(ids \ {first})

\* faulty variant of StepsOf: the rows come latest first
StepsOfLatestFirst(id) ==
    LET ids == OrderByStartedAt({i \in DOMAIN step_executions :
                   step_executions[i].workflow_execution_id = id})
    IN [k \in DOMAIN ids |-> ids[Len(ids) + 1 - k]]

\* select(WorkflowStepExecution).where(workflow_execution_id == execution_id)
StepsOf(id) ==
    OrderByStartedAt({i \in DOMAIN step_executions :
                         step_executions[i].workflow_execution_id = id})

\* the entry of "steps" for one step execution
StepStatus(rec) ==
    [step_name |-> rec.step_name, step_type |-> rec.step_type,
     status |-> rec.status, duration_seconds |-> rec.duration_seconds,
     error_message |-> rec.error_message, retry_count |-> rec.retry_count]

\* the dict get_execution_status returns
ExecutionStatus(id) ==
    [execution_id |-> id,
     workflow_id |-> executions[id].workflow_id,
     status |-> executions[id].status,
     current_step |-> executions[id].current_step,
     started_at |-> executions[id].started_at,
     completed_at |-> executions[id].completed_at,
     duration_seconds |-> executions[id].duration_seconds,
     input_data |-> executions[id].input_data,
     output_data |-> executions[id].output_data,
     error_message |-> executions[id].error_message,
     steps |-> LET steps == StepsOf(id) IN
               [k \in DOMAIN steps |-> StepStatus(step_executions[steps[k]])]]

\* get_execution_status finds the execution of its tenant and returns the
\* projection; nothing is written
GetExecutionStatus(t, id) ==
    /\ LoadExecution(t, id) # None
    /\ response' = Response("get_execution_status", t, id, None,
                             Some(ExecutionStatus(id)))
    /\ UNCHANGED <<workflows, executions, step_executions, agent_tasks,
                   run, cancel, clock>>

\* get_execution_status raises ValueError: no such execution for the tenant
GetExecutionStatusRejected(t, id) ==
    /\ LoadExecution(t, id) = None
    /\ response' = Response("get_execution_status", t, id,
                             Some("not found"), None)
    /\ UNCHANGED <<workflows, executions, step_executions, agent_tasks,
                   run, cancel, clock>>

(***************************************************************************)
(* The system                                                              *)
(***************************************************************************)
\* the id a caller passes as execution_id: it has no row until
\* execute_workflow has inserted the execution
ExecutionIds == {1}

Next ==
    \/ \E t \in Tenants, w \in WorkflowIds : ExecuteWorkflowRejected(t, w)
    \/ \E t \in Tenants, w \in WorkflowIds, i \in InputDatas, c \in ContextArgs :
          ExecuteWorkflow(t, w, i, c)
    \/ BeginStep
    \/ UnknownStepType
    \/ CreateStepExecution
    \/ LoadAgent
    \/ AgentNotFound
    \/ \E r \in UNION {Responses[k] : k \in DOMAIN Responses} : StepSucceeds(r)
    \/ \E e \in Errors : StepFails(e)
    \/ Retry
    \/ GiveUp
    \/ MarkCompleted
    \/ MarkFailed
    \/ Return
    \/ Reraise
    \/ \E t \in Tenants, id \in ExecutionIds : CancelRejected(t, id)
    \/ \E t \in Tenants, id \in ExecutionIds : CancelLoad(t, id)
    \/ CancelCommit
    \/ CancelReturn

Spec == Init /\ [][Next]_vars

(***************************************************************************)
(* The system with parallel steps: one execute_workflow request, observed  *)
(* by any number of get_execution_status requests.                         *)
(***************************************************************************)
\* the workflows explored: every step of the pool alone, an agent step
\* with one retry before an http step, and the parallel step alone, after
\* an agent step (waiting for all its sub-steps), and before an http step
\* (waiting for some of them, so that tasks may be cancelled)
NestedLists ==
    {<<s>> : s \in StepPool}
    \cup {<<a, h>> : a \in {s \in StepPool :
                                s.name = "A" /\ s.max_retries = Some(1)},
                     h \in {s \in StepPool : s.name = "H"}}
    \cup {<<p>> : p \in ParallelPool}
    \cup {<<a, p>> : a \in {s \in StepPool :
                                s.name = "A" /\ s.max_retries = None},
                     p \in {q \in ParallelPool : q.wait_for = <<"all">>}}
    \cup {<<p, h>> : p \in {q \in ParallelPool : q.wait_for # <<"all">>},
                     h \in {s \in StepPool : s.name = "H"}}

InitNested ==
    /\ \E steps \in NestedLists :
          workflows =
              [w \in WorkflowIds \ {"w_missing"} |->
                  CASE w = "w1" -> WorkflowRow("t1", "active", FALSE, steps)
                    [] w = "w_draft" -> WorkflowRow("t1", "draft", FALSE, steps)
                    [] w = "w_deleted" -> WorkflowRow("t1", "active", TRUE, steps)]
    /\ executions = <<>>
    /\ step_executions = <<>>
    /\ agent_tasks = <<>>
    /\ run = IdleRun
    /\ cancel = IdleCancel
    /\ clock = 0
    /\ response = NoResponse

NextNested ==
    \/ \E t \in Tenants, w \in WorkflowIds, i \in InputDatas :
          ExecuteWorkflow(t, w, i, None)
    \/ BeginStep
    \/ UnknownStepType
    \/ CreateStepExecution
    \/ LoadAgent
    \/ AgentNotFound
    \/ \E r \in UNION {Responses[k] : k \in DOMAIN Responses} : StepSucceeds(r)
    \/ \E e \in Errors : StepFails(e)
    \/ Retry
    \/ GiveUp
    \/ MarkCompleted
    \/ MarkFailed
    \/ Return
    \/ Reraise
    \/ CreateParallelStepExecution
    \/ SpawnTasks
    \/ \E i \in 1..MaxSubSteps : SubUnknownStepType(i)
    \/ \E i \in 1..MaxSubSteps : SubCreateStepExecution(i)
    \/ \E i \in 1..MaxSubSteps : SubLoadAgent(i)
    \/ \E i \in 1..MaxSubSteps,
          r \in UNION {Responses[k] : k \in DOMAIN Responses} :
          SubStepSucceeds(i, r)
    \/ \E i \in 1..MaxSubSteps, e \in Errors : SubStepFails(i, e)
    \/ \E i \in 1..MaxSubSteps : SubRetry(i)
    \/ \E i \in 1..MaxSubSteps : SubGiveUp(i)
    \/ GatherTasks
    \/ WaitTasks
    \/ \E t \in Tenants, id \in ExecutionIds : GetExecutionStatus(t, id)
    \/ \E t \in Tenants, id \in ExecutionIds : GetExecutionStatusRejected(t, id)

SpecNested == InitNested /\ [][NextNested]_vars

(***************************************************************************)
(* One execute_workflow request on a workflow that is a single parallel    *)
(* step, with nothing else going on.  The event loop runs every task that  *)
(* is ready and every capability that is awaited answers or raises, so a   *)
(* step that can be taken is eventually taken.                             *)
(***************************************************************************)
WaitLists == {<<p>> : p \in ParallelPool}

InitWait ==
    /\ \E steps \in WaitLists :
          workflows =
              [w \in WorkflowIds \ {"w_missing"} |->
                  CASE w = "w1" -> WorkflowRow("t1", "active", FALSE, steps)
                    [] w = "w_draft" -> WorkflowRow("t1", "draft", FALSE, steps)
                    [] w = "w_deleted" -> WorkflowRow("t1", "active", TRUE, steps)]
    /\ executions = <<>>
    /\ step_executions = <<>>
    /\ agent_tasks = <<>>
    /\ run = IdleRun
    /\ cancel = IdleCancel
    /\ clock = 0
    /\ response = NoResponse

NextWait ==
    \/ \E t \in Tenants, w \in WorkflowIds, i \in InputDatas :
          ExecuteWorkflow(t, w, i, None)
    \/ BeginStep
    \/ CreateParallelStepExecution
    \/ SpawnTasks
    \/ \E i \in 1..MaxSubSteps : SubUnknownStepType(i)
    \/ \E i \in 1..MaxSubSteps : SubCreateStepExecution(i)
    \/ \E i \in 1..MaxSubSteps : SubLoadAgent(i)
    \/ \E i \in 1..MaxSubSteps,
          r \in UNION {Responses[k] : k \in DOMAIN Responses} :
          SubStepSucceeds(i, r)
    \/ \E i \in 1..MaxSubSteps, e \in Errors : SubStepFails(i, e)
    \/ \E i \in 1..MaxSubSteps : SubRetry(i)
    \/ \E i \in 1..MaxSubSteps : SubGiveUp(i)
    \/ GatherTasks
    \/ WaitTasks
    \/ MarkCompleted
    \/ MarkFailed
    \/ Return
    \/ Reraise

SpecWait == InitWait /\ [][NextWait]_vars /\ WF_vars(NextWait)

(***************************************************************************)
(* The resolver and the condition evaluator called on their own, as        *)
(* tests/test_workflow_engine.py calls them: the call is in response (op   *)
(* and arg), and the step of the call adds what it returned or raised.     *)
(***************************************************************************)
\* parts joined by a separator
RECURSIVE Join(_, _)
Join(parts, sep) ==
    IF parts = <<>> THEN <<>>
    ELSE IF Len(parts) = 1 THEN parts[1]
    ELSE parts[1] \o sep \o Join(Tail(parts), sep)

\* all the pieces of a sequence of pieces, one behind the other
RECURSIVE Concat(_)
Concat(texts) == IF texts = <<>> THEN <<>> ELSE Head(texts) \o Concat(Tail(texts))

\* the dotted paths the templates name: every part is the chars of a key
TemplatePaths ==
    {<< <<"a">> >>, << <<"a">>, <<"b">> >>, << <<"n">> >>, << <<"z">> >>,
     << <<"q">> >>, << <<"a">>, <<"q">> >>, << <<"n">>, <<"b">> >>,
     << <<"s">> >>}

\* the pieces a template is written from: a placeholder for a path, or
\* plain characters, braces among them
Placeholder(path) ==
    [text |-> <<"{">> \o Join(path, <<".">>) \o <<"}">>, path |-> Some(path)]
Plain(chars) == [text |-> chars, path |-> None]
TemplatePieces ==
    {Placeholder(path) : path \in TemplatePaths}
    \cup {Plain(chars) : chars \in {<<"h", "i", " ">>, <<".">>, <<"{">>,
                                    <<"}">>, <<"{", "}">>}}

\* the templates explored: up to MaxPieces pieces
PieceLists == UNION {[1..n -> TemplatePieces] : n \in 0..MaxPieces}
Template(pieces) == Concat([k \in DOMAIN pieces |-> pieces[k].text])

\* the data handed to _resolve_template_vars: the template itself, the
\* template in a dict or in a list, or a scalar that is no string
TemplateShapes == {"str", "dict", "list", "int", "float", "bool", "none"}
TemplateData(shape, pieces) ==
    CASE shape = "str" -> PyStr(Template(pieces))
      [] shape = "dict" ->
             PyDict(<< <<Chars("k"), PyStr(Template(pieces))>>,
                       <<Chars("m"), PyInt(7)>> >>)
      [] shape = "list" ->
             PyList(<<PyStr(Template(pieces)), PyNone,
                      PyDict(<< <<Chars("k"), PyStr(Template(pieces))>> >>)>>)
      [] shape = "int" -> PyInt(7)
      [] shape = "float" -> PyFloat(250)
      [] shape = "bool" -> PyBool(FALSE)
      [] shape = "none" -> PyNone

\* the contexts the templates are resolved against
TemplateContexts ==
    {PyDict(<< <<Chars("a"), PyDict(<< <<Chars("b"), PyStr(<<"x">>)>> >>)>>,
               <<Chars("n"), PyInt(95)>>,
               <<Chars("z"), PyNone>>,
               <<Chars("s"), PyStr(<<"{", "n", "}">>)>> >>),
     PyDict(<< <<Chars("a"), PyStr(<<"y">>)>>,
               <<Chars("n"), PyFloat(50)>>,
               <<Chars("q"), PyBool(TRUE)>> >>),
     PyDict(<<>>)}

\* the calls of _resolve_template_vars explored
TemplateCalls ==
    {[shape |-> shape, pieces |-> pieces,
      data |-> TemplateData(shape, pieces), context |-> context] :
        shape \in TemplateShapes, pieces \in PieceLists,
        context \in TemplateContexts}

\* the conditions explored are written as prefix, path, spaces, operator,
\* spaces, literal; a literal of the grammar comes with the value it denotes
ConditionPaths ==
    {<< <<"s">>, <<"v">> >>, << <<"s">>, <<"n">> >>,
     << <<"s">>, <<"s", "t", "a", "t", "u", "s">> >>,
     << <<"s">>, <<"f", "l", "a", "g">> >>, << <<"s">>, <<"z">> >>,
     << <<"s">>, <<"q">> >>}
Literal(text, value) == [text |-> text, value |-> value]
Literals ==
    {Literal(<<"t", "r", "u", "e">>, Some(PyBool(TRUE))),
     Literal(<<"f", "a", "l", "s", "e">>, Some(PyBool(FALSE))),
     Literal(<<"n", "u", "l", "l">>, Some(PyNone)),
     Literal(<<"\"", "o", "k", "\"">>, Some(PyStr(<<"o", "k">>))),
     Literal(<<"\"", "b", "a", "d", "\"">>, Some(PyStr(<<"b", "a", "d">>))),
     Literal(<<"0", ".", "8">>, Some(PyFloat(80))),
     Literal(<<"0", ".", "5">>, Some(PyFloat(50))),
     Literal(<<"5", "0">>, Some(PyFloat(5000))),
     Literal(<<"1", "0", "0">>, Some(PyFloat(10000))),
     Literal(<<"-", "1">>, Some(PyFloat(0 - 100))),
     Literal(<<"o", "k">>, None),
     Literal(<<"'", "o", "k", "'">>, None)}
ConditionOperators == Operators \cup {<<"=">>, <<"=", ">">>}
ConditionPrefixes == {<<"$", ".">>, <<"$">>}
Spaces == {<<>>, <<" ">>}
ConditionContexts ==
    {PyDict(<< <<Chars("s"),
                 PyDict(<< <<<<"v">>, PyFloat(90)>>,
                           <<<<"n">>, PyInt(50)>>,
                           <<<<"s", "t", "a", "t", "u", "s">>,
                             PyStr(<<"o", "k">>)>>,
                           <<<<"f", "l", "a", "g">>, PyBool(TRUE)>>,
                           <<<<"z">>, PyNone>> >>)>> >>),
     PyDict(<< <<Chars("s"),
                 PyDict(<< <<<<"v">>, PyFloat(50)>>,
                           <<<<"n">>, PyInt(100)>>,
                           <<<<"s", "t", "a", "t", "u", "s">>,
                             PyStr(<<"b", "a", "d">>)>>,
                           <<<<"f", "l", "a", "g">>, PyBool(FALSE)>>,
                           <<<<"z">>, PyNone>> >>)>> >>),
     PyDict(<< <<Chars("s"), PyStr(<<"o", "k">>)>> >>)}

\* the calls of _evaluate_condition explored
ConditionCalls ==
    {[prefix |-> prefix, path |-> path, before |-> before,
      operator |-> operator, after |-> after, literal |-> literal,
      condition |-> prefix \o Join(path, <<".">>) \o before \o operator
                        \o after \o literal.text,
      context |-> context] :
        prefix \in ConditionPrefixes, path \in ConditionPaths,
        before \in Spaces, operator \in ConditionOperators, after \in Spaces,
        literal \in Literals, context \in ConditionContexts}

InitPure ==
    /\ workflows = <<>>
    /\ executions = <<>>
    /\ step_executions = <<>>
    /\ agent_tasks = <<>>
    /\ run = IdleRun
    /\ cancel = IdleCancel
    /\ clock = 0
    /\ \/ \E call \in TemplateCalls :
             response = Response("_resolve_template_vars", "", call, None, None)
       \/ \E call \in ConditionCalls :
             response = Response("_evaluate_condition", "", call, None, None)

\* _resolve_template_vars(data, context) returns
ResolveTemplateVarsReturns ==
    /\ response.op = "_resolve_template_vars"
    /\ response.error = None /\ response.value = None
    /\ response' =
           [response EXCEPT !.value =
                Some(ResolveTemplateVars(The(response.arg).data,
                                         The(response.arg).context))]
    /\ UNCHANGED <<workflows, executions, step_executions, agent_tasks,
                   run, cancel, clock>>

\* _evaluate_condition(condition, context) returns a bool
EvaluateConditionReturns ==
    /\ response.op = "_evaluate_condition"
    /\ response.error = None /\ response.value = None
    /\ \E result \in {EvaluateCondition(The(response.arg).condition,
                                        The(response.arg).context)} :
          /\ result.raises = None
          /\ response' = [response EXCEPT !.value = result.returns]
    /\ UNCHANGED <<workflows, executions, step_executions, agent_tasks,
                   run, cancel, clock>>

\* _evaluate_condition(condition, context) raises
EvaluateConditionRaises ==
    /\ response.op = "_evaluate_condition"
    /\ response.error = None /\ response.value = None
    /\ \E result \in {EvaluateCondition(The(response.arg).condition,
                                        The(response.arg).context)} :
          /\ result.raises # None
          /\ response' = [response EXCEPT !.error = result.raises]
    /\ UNCHANGED <<workflows, executions, step_executions, agent_tasks,
                   run, cancel, clock>>

NextPure ==
    \/ ResolveTemplateVarsReturns
    \/ EvaluateConditionReturns
    \/ EvaluateConditionRaises

SpecPure == InitPure /\ [][NextPure]_vars

(***************************************************************************)
(* The system with conditional steps: one execute_workflow request on a    *)
(* workflow that is a conditional step, alone or after the agent step A    *)
(* whose answer the condition reads.                                       *)
(***************************************************************************)
ConditionalLists ==
    {<<k>> : k \in ConditionalPool}
    \cup {<<a, k>> : a \in {s \in StepPool :
                                s.name = "A" /\ s.max_retries = None},
                     k \in ConditionalPool}

InitCond ==
    /\ \E steps \in ConditionalLists :
          workflows =
              [w \in WorkflowIds \ {"w_missing"} |->
                  CASE w = "w1" -> WorkflowRow("t1", "active", FALSE, steps)
                    [] w = "w_draft" -> WorkflowRow("t1", "draft", FALSE, steps)
                    [] w = "w_deleted" -> WorkflowRow("t1", "active", TRUE, steps)]
    /\ executions = <<>>
    /\ step_executions = <<>>
    /\ agent_tasks = <<>>
    /\ run = IdleRun
    /\ cancel = IdleCancel
    /\ clock = 0
    /\ response = NoResponse

NextCond ==
    \/ \E t \in Tenants, w \in WorkflowIds, i \in InputDatas :
          ExecuteWorkflow(t, w, i, None)
    \/ BeginStep
    \/ CreateStepExecution
    \/ LoadAgent
    \/ \E r \in UNION {Responses[k] : k \in DOMAIN Responses} : StepSucceeds(r)
    \/ \E e \in Errors : StepFails(e)
    \/ GiveUp
    \/ CreateConditionalStepExecution
    \/ ConditionRaises
    \/ SkipBranch
    \/ EnterBranch
    \/ SubUnknownStepType(1)
    \/ SubCreateStepExecution(1)
    \/ SubLoadAgent(1)
    \/ \E r \in UNION {Responses[k] : k \in DOMAIN Responses} :
          SubStepSucceeds(1, r)
    \/ \E e \in Errors : SubStepFails(1, e)
    \/ SubRetry(1)
    \/ SubGiveUp(1)
    \/ BranchReturns
    \/ BranchRaises
    \/ MarkCompleted
    \/ MarkFailed
    \/ Return
    \/ Reraise

SpecCond == InitCond /\ [][NextCond]_vars

(***************************************************************************)
(* The system with leaf steps whose definition says more: agent steps      *)
(* with an output_mapping and http steps with max_retries.  One            *)
(* execute_workflow request, nothing else going on.                        *)
(***************************************************************************)
\* http steps that declare a retry budget
HttpRetryPool ==
    {[type |-> "http", name |-> "R", agent_id |-> "", max_retries |-> Some(k)] :
        k \in 1..MaxRetries}

\* the workflows explored: each of these steps alone, and the agent step G
\* before or after one of the others
LeafLists ==
    {<<s>> : s \in MappedPool \cup HttpRetryPool}
    \cup {<<g, s>> : g \in {m \in MappedPool : m.name = "G"},
                     s \in {m \in MappedPool : m.name = "F"} \cup HttpRetryPool}
    \cup {<<r, g>> : r \in HttpRetryPool,
                     g \in {m \in MappedPool : m.name = "G"}}

InitLeaf ==
    /\ \E steps \in LeafLists :
          workflows =
              [w \in WorkflowIds \ {"w_missing"} |->
                  CASE w = "w1" -> WorkflowRow("t1", "active", FALSE, steps)
                    [] w = "w_draft" -> WorkflowRow("t1", "draft", FALSE, steps)
                    [] w = "w_deleted" -> WorkflowRow("t1", "active", TRUE, steps)]
    /\ executions = <<>>
    /\ step_executions = <<>>
    /\ agent_tasks = <<>>
    /\ run = IdleRun
    /\ cancel = IdleCancel
    /\ clock = 0
    /\ response = NoResponse

NextLeaf ==
    \/ \E t \in Tenants, w \in WorkflowIds, i \in InputDatas :
          ExecuteWorkflow(t, w, i, None)
    \/ BeginStep
    \/ CreateStepExecution
    \/ LoadAgent
    \/ \E r \in UNION {Responses[k] : k \in DOMAIN Responses} : StepSucceeds(r)
    \/ \E r \in UNION {Responses[k] : k \in DOMAIN Responses} :
          StepSucceedsMapped(r)
    \/ \E r \in UNION {Responses[k] : k \in DOMAIN Responses} :
          StepCompletedUnmapped(r)
    \/ MappingRaises
    \/ \E e \in Errors : StepFails(e)
    \/ Retry
    \/ GiveUp
    \/ MarkCompleted
    \/ MarkFailed
    \/ Return
    \/ Reraise

SpecLeaf == InitLeaf /\ [][NextLeaf]_vars

(***************************************************************************)
(***************************************************************************)
(* The system with parallel steps whose wait_for is none of all, any and   *)
(* count:N: a string that names no policy, None, and "count:x".  One       *)
(* execute_workflow request on such a step, alone or, when its wait_for    *)
(* is a string, before the http step H.                                    *)
(***************************************************************************)
GatherPool ==
    {[type |-> "parallel", name |-> "P", agent_id |-> "",
      max_retries |-> None, steps |-> s, wait_for |-> w] :
        s \in {q \in UNION {[1..n -> SubStepPool] : n \in 1..MaxSubSteps} :
                  \A i, j \in DOMAIN q :
                      j = i + 1 => SubRank(q[j].name) = SubRank(q[i].name) + 1},
        w \in {<<"each">>} \cup UnreadableWaitFors}

GatherLists ==
    {<<p>> : p \in GatherPool}
    \cup {<<p, h>> : p \in {q \in GatherPool : q.wait_for = <<"each">>},
                     h \in {s \in StepPool : s.name = "H"}}

InitGather ==
    /\ \E steps \in GatherLists :
          workflows =
              [w \in WorkflowIds \ {"w_missing"} |->
                  CASE w = "w1" -> WorkflowRow("t1", "active", FALSE, steps)
                    [] w = "w_draft" -> WorkflowRow("t1", "draft", FALSE, steps)
                    [] w = "w_deleted" -> WorkflowRow("t1", "active", TRUE, steps)]
    /\ executions = <<>>
    /\ step_executions = <<>>
    /\ agent_tasks = <<>>
    /\ run = IdleRun
    /\ cancel = IdleCancel
    /\ clock = 0
    /\ response = NoResponse

NextGather ==
    \/ \E t \in Tenants, w \in WorkflowIds, i \in InputDatas :
          ExecuteWorkflow(t, w, i, None)
    \/ BeginStep
    \/ CreateStepExecution
    \/ \E r \in UNION {Responses[k] : k \in DOMAIN Responses} : StepSucceeds(r)
    \/ \E e \in Errors : StepFails(e)
    \/ CreateParallelStepExecution
    \/ SpawnTasks
    \/ SpawnTasksRaises
    \/ \E i \in 1..MaxSubSteps : SubUnknownStepType(i)
    \/ \E i \in 1..MaxSubSteps : SubCreateStepExecution(i)
    \/ \E i \in 1..MaxSubSteps : SubLoadAgent(i)
    \/ \E i \in 1..MaxSubSteps,
          r \in UNION {Responses[k] : k \in DOMAIN Responses} :
          SubStepSucceeds(i, r)
    \/ \E i \in 1..MaxSubSteps, e \in Errors : SubStepFails(i, e)
    \/ \E i \in 1..MaxSubSteps : SubRetry(i)
    \/ \E i \in 1..MaxSubSteps : SubGiveUp(i)
    \/ GatherTasks
    \/ MarkCompleted
    \/ MarkFailed
    \/ Return
    \/ Reraise

SpecGather == InitGather /\ [][NextGather]_vars

(***************************************************************************)
(* The system with two tenants: the workflows belong to one of them, and   *)
(* engines bound to either tenant serve execute_workflow, cancel_workflow  *)
(* and get_execution_status requests.                                      *)
(***************************************************************************)
TenantLists ==
    {<<a>> : a \in {s \in StepPool : s.name = "A" /\ s.max_retries = None}}
    \cup {<<h>> : h \in {s \in StepPool : s.name = "H"}}
    \cup {<<a, h>> : a \in {s \in StepPool :
                                s.name = "A" /\ s.max_retries = None},
                     h \in {s \in StepPool : s.name = "H"}}

InitTenants ==
    /\ \E steps \in TenantLists, owner \in Tenants :
          workflows =
              [w \in WorkflowIds \ {"w_missing"} |->
                  CASE w = "w1" -> WorkflowRow(owner, "active", FALSE, steps)
                    [] w = "w_draft" -> WorkflowRow(owner, "draft", FALSE, steps)
                    [] w = "w_deleted" ->
                           WorkflowRow(owner, "active", TRUE, steps)]
    /\ executions = <<>>
    /\ step_executions = <<>>
    /\ agent_tasks = <<>>
    /\ run = IdleRun
    /\ cancel = IdleCancel
    /\ clock = 0
    /\ response = NoResponse

NextTenants ==
    \/ \E t \in Tenants, w \in WorkflowIds : ExecuteWorkflowRejected(t, w)
    \/ \E t \in Tenants, w \in WorkflowIds, i \in InputDatas :
          ExecuteWorkflow(t, w, i, None)
    \/ BeginStep
    \/ CreateStepExecution
    \/ LoadAgent
    \/ AgentNotFound
    \/ \E r \in UNION {Responses[k] : k \in DOMAIN Responses} : StepSucceeds(r)
    \/ \E e \in Errors : StepFails(e)
    \/ GiveUp
    \/ MarkCompleted
    \/ MarkFailed
    \/ Return
    \/ Reraise
    \/ \E t \in Tenants, id \in ExecutionIds : CancelRejected(t, id)
    \/ \E t \in Tenants, id \in ExecutionIds : CancelLoad(t, id)
    \/ CancelCommit
    \/ CancelReturn
    \/ \E t \in Tenants, id \in ExecutionIds : GetExecutionStatus(t, id)
    \/ \E t \in Tenants, id \in ExecutionIds : GetExecutionStatusRejected(t, id)

SpecTenants == InitTenants /\ [][NextTenants]_vars

(* Properties                                                              *)
(***************************************************************************)
\* the execution of the observed run, once it exists
RunExecution == executions[run.execution]

\* C1: under any interleaving of execute_workflow and cancel_workflow an
\* execution whose status is terminal (completed, failed, cancelled) never
\* changes its status again.
C1_TerminalStatusIsFinal ==
    [][\A id \in DOMAIN executions :
          executions[id].status \in TerminalStatuses
              => executions'[id].status = executions[id].status]_vars

\* C2: once cancel_workflow has recorded the execution as cancelled, no step
\* execution is created for a top-level step that the orchestrator had not
\* begun before the cancellation (run.begun_cancelled: the execution was
\* already cancelled when _execute_steps turned to the step).
C2_NoDispatchAfterCancel ==
    [][Len(step_executions') > Len(step_executions)
          => ~run.begun_cancelled]_vars

\* C3: cancel_workflow on an execution of the caller's tenant whose status
\* is pending or running is not refused, commits status cancelled with
\* completed_at set, and returns that execution.
C3_CancelRunning ==
    [][/\ (response'.op = "cancel_workflow" /\ response'.error # None)
              => LET found == LoadExecution(response'.tenant_id,
                                            The(response'.arg)) IN
                 found = None \/ The(found).status \notin {"pending", "running"}
       /\ (cancel.pc = "commit" /\ cancel'.pc = "return")
              => /\ executions'[cancel.execution_id].status = "cancelled"
                 /\ IsSet(executions'[cancel.execution_id].completed_at)
       /\ (cancel.pc = "return" /\ cancel'.pc = "idle")
              => /\ response'.op = "cancel_workflow"
                 /\ response'.error = None
                 /\ The(response'.value).id = cancel.execution_id
                 /\ The(response'.value).tenant_id = cancel.tenant_id]_vars

\* C3 witness: a cancel of the running execution has returned it cancelled
C3_Witness ==
    /\ response.op = "cancel_workflow"
    /\ response.error = None
    /\ The(response.value).status = "cancelled"
    /\ IsSet(The(response.value).completed_at)
    /\ run.pc \notin {"idle", "done"}

\* C4: cancel_workflow on an execution whose status is completed, failed or
\* cancelled is refused with an error and leaves the execution's status,
\* completed_at and duration_seconds unchanged.
C4_CancelTerminalFails ==
    [][/\ (cancel.pc = "idle" /\ cancel'.pc # "idle")
              => executions[cancel'.execution_id].status \notin TerminalStatuses
       /\ (response'.op = "cancel_workflow" /\ response'.error # None)
              => executions' = executions]_vars

\* C4 witness: a second cancel of the cancelled execution was refused
C4_Witness ==
    /\ response.op = "cancel_workflow"
    /\ response.error = Some("Cannot cancel")
    /\ response.tenant_id = "t1"
    /\ executions[1].status = "cancelled"

\* the run is handling, or has ended with, an error raised by a step
RunFailed ==
    \/ run.pc \in {"except", "reraise"}
    \/ run.pc = "done" /\ run.error # None

\* C5: a single agent step with max_retries = k whose agent call fails on
\* every attempt leaves, when execute_workflow marks the execution failed,
\* exactly one step execution, with retry_count = k and status failed.
C5_RetriedInPlace ==
    [][(/\ run.pc = "except" /\ run'.pc = "reraise"
        /\ Len(RunSteps) = 1
        /\ CurrentStep.type = "agent"
        /\ run.calls >= 1)
          => /\ executions'[run.execution].status = "failed"
             /\ Len(step_executions') = 1
             /\ step_executions'[1].status = "failed"
             /\ step_executions'[1].retry_count = MaxRetriesOf(CurrentStep)]_vars

\* C6: an agent or mcp_tool step with max_retries = k (0 when absent) calls
\* its capability at most k + 1 times per dispatch.
C6_BoundedAttempts ==
    (run.pc \in {"dispatch", "invoke", "call", "retry", "except"}
        /\ CurrentStep.type \in RetryingTypes)
        => run.calls <= MaxRetriesOf(CurrentStep) + 1

\* C7: every step execution has retry_count <= the max_retries of its step
\* definition (0 when the step declares none).
C7_RetryCountWithinBudget ==
    \A i \in DOMAIN step_executions :
        step_executions[i].retry_count <= MaxRetriesOf(step_executions[i].step)

\* C7 witness: a step execution that failed and was counted as retried
C7_Witness ==
    \E i \in DOMAIN step_executions :
        /\ step_executions[i].status = "failed"
        /\ step_executions[i].retry_count = 1
        /\ MaxRetriesOf(step_executions[i].step) = 1

\* C8: when a top-level step fails terminally the execution is committed as
\* failed with error_message and completed_at set; no step execution exists
\* for a later top-level step, and from the failure on no step execution is
\* created or changed (completed ones keep their status and output).
C8_FailureStopsTheRun ==
    [][/\ (run.pc = "except" /\ run'.pc = "reraise")
              => /\ executions'[run.execution].status = "failed"
                 /\ executions'[run.execution].error_message = run.error
                 /\ IsSet(executions'[run.execution].completed_at)
       /\ RunFailed
              => /\ step_executions' = step_executions
                 /\ RunFailed'
                 /\ \A i \in DOMAIN step_executions :
                       \E j \in 1..run.idx :
                           step_executions[i].step_name = RunSteps[j].name
       /\ RunFailed'
              => \A i \in DOMAIN step_executions :
                    step_executions[i].status = "completed"
                        => step_executions'[i] = step_executions[i]]_vars

\* C8 witness: the second step failed after the first had completed
C8_Witness ==
    /\ run.pc = "reraise"
    /\ run.idx = 2
    /\ RunExecution.status = "failed"
    /\ step_executions[1].status = "completed"
    /\ step_executions[Len(step_executions)].status = "failed"

\* the context the spec describes: the seed {input, ...context} plus, in
\* declaration order, stepName -> output for the first n top-level steps
RECURSIVE ExpectedContext(_)
ExpectedContext(n) ==
    IF n = 0
    THEN RunExecution.context @@ ("input" :> RunExecution.input_data)
    ELSE (RunSteps[n].name :> run.outputs[n]) @@ ExpectedContext(n - 1)

\* C9: when every top-level step succeeds execute_workflow commits status
\* completed, completed_at set and output_data = the final context.
C9_CompletedWithFinalContext ==
    [][(run.pc = "steps" /\ run'.pc = "return")
          => /\ Len(run.outputs) = Len(RunSteps)
             /\ executions'[run.execution].status = "completed"
             /\ IsSet(executions'[run.execution].completed_at)
             /\ executions'[run.execution].output_data =
                    Some(ExpectedContext(Len(RunSteps)))]_vars

\* C9 witness: a run of two steps with an extra context has completed
C9_Witness ==
    /\ run.pc = "return"
    /\ Len(RunSteps) = 2
    /\ RunExecution.status = "completed"
    /\ DOMAIN The(RunExecution.output_data) =
           {"input", "user", RunSteps[1].name, RunSteps[2].name}

\* the workflow exists for tenant t: a row of t that is not soft-deleted
WorkflowExistsFor(t, w) ==
    /\ w \in DOMAIN workflows
    /\ workflows[w].tenant_id = t
    /\ ~workflows[w].deleted

\* C10: execute_workflow on a workflow that does not exist for the engine's
\* tenant fails with not-found, on one that is not active with not-active;
\* in both cases no execution and no step execution is created.
C10_PreflightRejects ==
    [][/\ Len(executions') > Len(executions)
              => /\ WorkflowExistsFor(executions'[Len(executions')].tenant_id,
                                      executions'[Len(executions')].workflow_id)
                 /\ workflows[executions'[Len(executions')].workflow_id].status
                        = "active"
       /\ (response'.op = "execute_workflow" /\ run.pc = run'.pc)
              => LET t == response'.tenant_id
                     w == The(response'.arg) IN
                 /\ executions' = executions
                 /\ step_executions' = step_executions
                 /\ ~WorkflowExistsFor(t, w)
                        => response'.error = Some("not found")
                 /\ (WorkflowExistsFor(t, w) /\ workflows[w].status # "active")
                        => response'.error = Some("not active")
                 /\ response'.error # None]_vars

\* C10 witness: the soft-deleted workflow was refused as not found
C10_Witness ==
    /\ response.op = "execute_workflow"
    /\ The(response.arg) = "w_deleted"
    /\ response.error = Some("not found")
    /\ executions = <<>>

\* C11: once the execution exists, an error raised by a step makes
\* execute_workflow commit status failed with error_message and completed_at
\* before the error reaches the caller; when the error reaches the caller
\* the execution exists with both fields set (its status is failed unless a
\* concurrent cancel was committed in between), and after execute_workflow
\* has exited the execution is never in status running.
C11_GuaranteedCleanup ==
    [][/\ (run.pc = "except" /\ run'.pc # "except")
              => /\ run'.pc = "reraise"
                 /\ executions'[run.execution].status = "failed"
                 /\ executions'[run.execution].error_message = run.error
                 /\ IsSet(executions'[run.execution].completed_at)
       /\ (response'.op = "execute_workflow" /\ run.pc # run'.pc
              /\ response'.error # None)
              => /\ run.pc = "reraise"
                 /\ run.execution \in DOMAIN executions'
                 /\ executions'[run.execution].error_message = response'.error
                 /\ IsSet(executions'[run.execution].completed_at)
                 /\ executions'[run.execution].status \in {"failed", "cancelled"}
                 /\ (cancel.pc = "idle" /\ RunExecution.status # "cancelled")
                        => executions'[run.execution].status = "failed"
       /\ run'.pc = "done"
              => executions'[run.execution].status \in TerminalStatuses]_vars

\* C11 witness: the error of a failed step has reached the caller while the
\* execution is stored as failed with its message
C11_Witness ==
    /\ run.pc = "done"
    /\ response.op = "execute_workflow"
    /\ response.error = Some("boom")
    /\ RunExecution.status = "failed"
    /\ RunExecution.error_message = Some("boom")
    /\ IsSet(RunExecution.completed_at)

\* C12 as stated: once pre-flight has passed execute_workflow ends by
\* returning the execution, never by raising.
C12_AlwaysReturns ==
    [][(run.pc # "done" /\ run'.pc = "done")
          => /\ response'.error = None
             /\ response'.value # None]_vars

\* C12, amended: once pre-flight has passed execute_workflow ends in one of
\* two ways: all steps succeeded and it returns the execution (status
\* completed, or cancelled by a concurrent cancel), or a step failed and,
\* the execution having been committed as failed, the step's error is raised
\* to the caller and nothing is returned.
C12_ReturnsOrReraises ==
    [][(run.pc # "done" /\ run'.pc = "done")
          => /\ response'.op = "execute_workflow"
             /\ \/ /\ run.pc = "return"
                   /\ response'.error = None
                   /\ The(response'.value) = executions[run.execution]
                   /\ The(response'.value).status \in {"completed", "cancelled"}
                \/ /\ run.pc = "reraise"
                   /\ response'.error = run.error
                   /\ response'.error # None
                   /\ response'.value = None
                   /\ IsSet(executions[run.execution].error_message)]_vars

\* C12 witness: a step failed and execute_workflow ended by raising
C12_Witness ==
    /\ run.pc = "done"
    /\ response.op = "execute_workflow"
    /\ response.error # None
    /\ response.value = None
    /\ Len(step_executions) >= 1
    /\ step_executions[Len(step_executions)].status = "failed"

\* C14: whenever a step executor hands control back to _execute_steps, by
\* returning an output or by raising, the step execution it created is
\* completed or failed with completed_at set.
C14_FinalizedOnExit ==
    [][(run.pc \in {"invoke", "call", "retry"}
          /\ run'.pc \in {"steps", "except"})
          => /\ step_executions'[run.step_execution].status
                    \in {"completed", "failed"}
             /\ IsSet(step_executions'[run.step_execution].completed_at)]_vars

TopLevel ==
    {i \in DOMAIN step_executions :
        \E j \in DOMAIN RunSteps : step_executions[i].step = RunSteps[j]}

\* C15: top-level steps run strictly one after the other: never are two
\* step executions of top-level steps running, a step execution of a
\* top-level step is inserted only when every earlier one is finalized,
\* and step executions of sub-steps are inserted or changed only while the
\* step execution of their parallel step is running.
C15_TopLevelSequential ==
    [][run.pc # "idle"
          => \A top \in {TopLevel} :
             /\ Cardinality({i \in top :
                                step_executions[i].status = "running"}) <= 1
             /\ \A n \in DOMAIN step_executions' \ DOMAIN step_executions :
                    (\E j \in DOMAIN RunSteps :
                        step_executions'[n].step = RunSteps[j])
                        => \A i \in top :
                              /\ step_executions[i].status
                                     \in {"completed", "failed"}
                              /\ IsSet(step_executions[i].completed_at)
             /\ \A n \in DOMAIN step_executions' :
                    (/\ \A j \in DOMAIN RunSteps :
                            step_executions'[n].step # RunSteps[j]
                     /\ (n \in DOMAIN step_executions
                            => step_executions'[n] # step_executions[n]))
                        => /\ run.idx \in DOMAIN RunSteps
                           /\ CurrentStep.type = "parallel"
                           /\ step_executions[run.step_execution].step
                                  = CurrentStep
                           /\ step_executions[run.step_execution].status
                                  = "running"]_vars

\* C15 witness: the http step after the parallel step is running while the
\* step execution of a cancelled sub-task is still marked running
C15_Witness ==
    /\ run.pc = "invoke"
    /\ run.idx = 2
    /\ CurrentStep.name = "H"
    /\ step_executions[run.step_execution].status = "running"
    /\ \E i \in DOMAIN step_executions \ TopLevel :
          step_executions[i].status = "running"

\* the position of the top-level step a step execution belongs to
StepIndex(rec) == CHOOSE j \in DOMAIN RunSteps : RunSteps[j] = rec.step

\* get_execution_status has just answered for a completed execution
AnsweredCompleted ==
    /\ response'.op = "get_execution_status"
    /\ response'.error = None
    /\ The(response'.value).status = "completed"

\* what every such answer satisfies: the entries of "steps" are the step
\* executions of the execution by ascending started_at, every top-level
\* step has one, and those of top-level steps are in declared order
InDeclaredOrder(steps, ids) ==
    \A top \in {TopLevel} :
    \A index \in {[i \in top |-> StepIndex(step_executions[i])]} :
       /\ Len(steps) = Len(ids)
       /\ {ids[k] : k \in DOMAIN ids} = DOMAIN step_executions
       /\ \A k \in DOMAIN ids :
              steps[k] = StepStatus(step_executions[ids[k]])
       /\ \A a, b \in DOMAIN ids :
              a < b => step_executions[ids[a]].started_at
                           <= step_executions[ids[b]].started_at
       /\ {index[i] : i \in top} = DOMAIN RunSteps
       /\ \A a, b \in DOMAIN ids :
              (a < b /\ ids[a] \in top /\ ids[b] \in top)
                  => index[ids[a]] <= index[ids[b]]

\* the step execution has completed_at >= started_at
Timed(rec) ==
    /\ IsSet(rec.completed_at)
    /\ The(rec.completed_at) >= rec.started_at

\* C16 as stated: get_execution_status on a completed execution returns
\* the step executions of the top-level steps in declared order, ordered
\* by started_at, and every returned one has completed_at >= started_at.
C16_EveryRecordTimed ==
    [][AnsweredCompleted
          => \A ids \in {StepsOf(The(response'.arg))},
                steps \in {The(response'.value).steps} :
             /\ InDeclaredOrder(steps, ids)
             /\ \A k \in DOMAIN ids : Timed(step_executions[ids[k]])]_vars

\* C16, amended: get_execution_status on a completed execution returns
\* all its step executions ordered by started_at, those of the top-level
\* steps in declared order, and every returned step execution of a
\* top-level step has completed_at >= started_at; the step execution of a
\* sub-step whose task was cancelled may be returned without completed_at.
C16_TopLevelRecordsTimed ==
    [][AnsweredCompleted
          => \A ids \in {StepsOf(The(response'.arg))}, top \in {TopLevel},
                steps \in {The(response'.value).steps} :
             /\ InDeclaredOrder(steps, ids)
             /\ \A k \in DOMAIN ids :
                    \/ ids[k] \in top /\ Timed(step_executions[ids[k]])
                    \/ /\ ids[k] \notin top
                       /\ \/ Timed(step_executions[ids[k]])
                          \/ /\ step_executions[ids[k]].status = "running"
                             /\ \E i \in DOMAIN run.tasks :
                                   /\ run.tasks[i].pc = "cancelled"
                                   /\ run.tasks[i].step_execution = ids[k]]_vars

\* C16 witness: the completed execution of [parallel P, http H] is
\* reported with P before H and a sub-step of P still running
C16_Witness ==
    /\ response.op = "get_execution_status"
    /\ response.error = None
    /\ The(response.value).status = "completed"
    /\ \E a, b, c \in DOMAIN The(response.value).steps :
          /\ a < b /\ b < c
          /\ The(response.value).steps[a].step_name = "P"
          /\ The(response.value).steps[b].status = "running"
          /\ The(response.value).steps[c].step_name = "H"

\* C17: get_execution_status writes nothing; for an execution of the
\* caller's tenant it reports the execution's current status and
\* current_step and one entry per step execution of that execution; for an
\* execution that does not exist, or belongs to another tenant, it fails
\* with not-found.
C17_StatusIsReadOnly ==
    [][response'.op = "get_execution_status"
          => LET t == response'.tenant_id
                 id == The(response'.arg)
                 mine == {i \in DOMAIN step_executions :
                             step_executions[i].workflow_execution_id = id}
             IN
             /\ UNCHANGED <<workflows, executions, step_executions,
                            agent_tasks, run, cancel, clock>>
             /\ IF id \in DOMAIN executions /\ executions[id].tenant_id = t
                THEN /\ response'.error = None
                     /\ The(response'.value).status = executions[id].status
                     /\ The(response'.value).current_step
                            = executions[id].current_step
                     /\ Len(The(response'.value).steps) = Cardinality(mine)
                     /\ \A i \in mine :
                            \E k \in DOMAIN The(response'.value).steps :
                                The(response'.value).steps[k]
                                    = StepStatus(step_executions[i])
                ELSE /\ response'.error = Some("not found")
                     /\ response'.value = None]_vars

\* C17 witness: another tenant asked for the running execution of t1 and
\* got not-found
C17_Witness ==
    /\ response.op = "get_execution_status"
    /\ response.tenant_id = "t2"
    /\ response.error = Some("not found")
    /\ 1 \in DOMAIN executions
    /\ executions[1].tenant_id = "t1"
    /\ executions[1].status = "running"
    /\ Len(step_executions) >= 2

\* the parallel step the run is at is resolved by this step
ParallelResolves == run.pc = "wait" /\ run'.pc # "wait"

\* every sub-task of the parallel step has finished with an output
AllSucceeded ==
    \A i \in DOMAIN run.tasks :
        run.tasks[i].pc = "done" /\ run.tasks[i].error = None

\* C18: a parallel step with n sub-steps and wait_for = all all of whose
\* sub-steps succeed is completed with the output {step_0: out_0, ...,
\* step_(n-1): out_(n-1)}, out_i being the output stored by the i-th
\* declared sub-step, in whatever order the sub-tasks finished; the output
\* enters the context under the step's name and, the parallel step being
\* the last one, the execution is committed as completed with it.
C18_AllSucceedOutput ==
    [][/\ (ParallelResolves /\ CurrentStep.wait_for = <<"all">>
              /\ AllSucceeded)
              => LET rec == step_executions'[run.step_execution]
                     n == Len(CurrentStep.steps) IN
                 /\ run'.pc = "steps"
                 /\ Len(run.tasks) = n
                 /\ rec.status = "completed"
                 /\ DOMAIN The(rec.output_data) = {<<"step", k>> : k \in 0..(n - 1)}
                 /\ \A k \in 0..(n - 1) :
                        LET sub == step_executions[run.tasks[k + 1].step_execution]
                        IN /\ sub.step = CurrentStep.steps[k + 1]
                           /\ sub.status = "completed"
                           /\ The(rec.output_data)[<<"step", k>>]
                                  = The(sub.output_data)
                 /\ run'.workflow_context[CurrentStep.name]
                        = The(rec.output_data)
       /\ (run.pc = "steps" /\ run'.pc # "steps" /\ run.idx > Len(RunSteps)
              /\ RunSteps[Len(RunSteps)].type = "parallel")
              => /\ executions'[run.execution].status = "completed"
                 /\ The(executions'[run.execution].output_data)
                         [RunSteps[Len(RunSteps)].name]
                        = The(step_executions[run.step_execution].output_data)
          ]_vars

\* C18 witness: under wait_for = all the second sub-task finished before
\* the first, both succeeded, and the execution has completed with the
\* outputs keyed by declaration
C18_Witness ==
    /\ run.pc = "return"
    /\ RunExecution.status = "completed"
    /\ RunSteps[Len(RunSteps)].type = "parallel"
    /\ RunSteps[Len(RunSteps)].wait_for = <<"all">>
    /\ run.finished = <<2, 1>>
    /\ AllSucceeded
    /\ The(RunExecution.output_data)["P"][<<"step", 0>>]
           = The(run.tasks[1].result)
    /\ The(RunExecution.output_data)["P"][<<"step", 1>>]
           = The(run.tasks[2].result)

\* the sub-tasks that have finished with an exception
FailedTasks == {i \in DOMAIN run.tasks : run.tasks[i].error # None}

\* C19: under wait_for = all the parallel step is resolved only when every
\* sub-task has finished; if a sub-task failed, the step execution of the
\* parallel step becomes failed with an error_message that lists the
\* errors of all failed sub-tasks, that error is raised to the
\* orchestrator, and no other step execution changes: those of completed
\* sub-steps stay completed, also while the execution is marked failed.
C19_AllAggregatesErrors ==
    [][/\ (ParallelResolves /\ CurrentStep.wait_for = <<"all">>)
              => /\ \A i \in DOMAIN run.tasks : run.tasks[i].pc = "done"
                 /\ Len(run.tasks) = Len(CurrentStep.steps)
                 /\ \A n \in DOMAIN step_executions :
                        n # run.step_execution
                            => step_executions'[n] = step_executions[n]
                 /\ FailedTasks # {}
                        => LET rec == step_executions'[run.step_execution]
                               msg == The(rec.error_message) IN
                           /\ rec.status = "failed"
                           /\ IsSet(rec.completed_at)
                           /\ msg[1] = "Parallel execution failed"
                           /\ Len(msg[2]) = Cardinality(FailedTasks)
                           /\ \A i \in FailedTasks :
                                  msg[2][Cardinality({j \in FailedTasks : j <= i})]
                                      = The(run.tasks[i].error)
                           /\ run'.pc = "except"
                           /\ run'.error = rec.error_message
       /\ (run.pc \in {"except", "reraise"} /\ run.idx \in DOMAIN RunSteps
              /\ CurrentStep.type = "parallel")
              => step_executions' = step_executions]_vars

\* C19 witness: under wait_for = all the second sub-task failed first, the
\* first one was still awaited and completed, and the parallel step failed
\* with the one error while the first sub-step's record is completed
C19_Witness ==
    /\ run.pc = "except"
    /\ CurrentStep.type = "parallel"
    /\ CurrentStep.wait_for = <<"all">>
    /\ run.finished = <<2, 1>>
    /\ run.tasks[1].error = None
    /\ run.tasks[2].error # None
    /\ step_executions[run.tasks[1].step_execution].status = "completed"
    /\ step_executions[run.step_execution].status = "failed"
    /\ Len(The(step_executions[run.step_execution].error_message)[2]) = 1

\* the context as it was when the current top-level step started: the seed
\* plus the outputs of the top-level steps before it
ContextBefore == ExpectedContext(run.idx - 1)

\* C20: within a parallel step every sub-step resolves its templates
\* against the context as it was before the parallel step started, the
\* context does not change while the sub-tasks run, and when the wait
\* policy resolves it gains exactly one key, the parallel step's own name,
\* holding the step's output (and nothing when the step fails).
C20_SubStepsIsolated ==
    /\ [](run.pc = "wait"
            => /\ run.workflow_context = ContextBefore
               /\ \A i \in DOMAIN run.tasks :
                      run.tasks[i].input_data # None
                          => run.tasks[i].input_data =
                                 Some(ResolveTemplateVars(SubStep(i).input,
                                                PyContext(ContextBefore))))
    /\ [][((run.pc = "wait" /\ run'.pc = "wait")
               => run'.workflow_context = run.workflow_context)
           /\ (ParallelResolves
                  => IF run'.pc = "steps"
                     THEN /\ run'.workflow_context =
                                 UpdateContext(run.workflow_context,
                                               CurrentStep.name,
                                               run'.outputs[run.idx])
                          /\ DOMAIN run'.workflow_context =
                                 DOMAIN run.workflow_context
                                     \cup {CurrentStep.name}
                     ELSE run'.workflow_context = run.workflow_context)]_vars

\* C20 witness: the second sub-step has finished with an output, and the
\* first one then resolved its instruction: the placeholder of the earlier
\* top-level step is replaced, the one naming its sibling is left as it was
C20_Witness ==
    /\ run.pc = "wait"
    /\ run.idx = 2
    /\ Len(run.tasks) = 2
    /\ SubStep(1).name = "S"
    /\ SubStep(2).name = "T"
    /\ run.finished = <<2>>
    /\ run.tasks[2].result # None
    /\ run.tasks[1].input_data # None
    /\ Get(The(run.tasks[1].input_data), Chars("instruction")) \in
           {PyStr(<<r, "/", "{", "T", ".", "result", "}">>) :
               r \in Responses["agent"]}

\* the output the parallel step is being completed with
ParallelOutput == The(step_executions'[run.step_execution].output_data)

\* C21: under every wait policy the key step_i of the output of a parallel
\* step holds the output of the i-th declared sub-step, in whatever order
\* the sub-tasks finish.
C21_KeyedByDeclaration ==
    [][(ParallelResolves /\ run'.pc = "steps")
          => \A key \in DOMAIN ParallelOutput :
                /\ key[2] + 1 \in DOMAIN run.tasks
                /\ run.tasks[key[2] + 1].result
                       = Some(ParallelOutput[key])]_vars

\* the sub-tasks that have finished with an output
SucceededTasks ==
    {i \in DOMAIN run.tasks : Done(i) /\ run.tasks[i].result # None}

\* C22: under wait_for = any or count:N a parallel step one of whose
\* sub-steps has succeeded does not fail, whatever the other sub-steps
\* did and in whatever order they finished.
C22_SuccessSuppressesErrors ==
    [][(ParallelResolves /\ CurrentStep.wait_for[1] \in {"any", "count"}
           /\ SucceededTasks # {})
          => /\ run'.pc = "steps"
             /\ step_executions'[run.step_execution].status
                    = "completed"]_vars

\* the smaller of two numbers
Min(a, b) == IF a <= b THEN a ELSE b

\* C23: a parallel step under wait_for = any is not resolved before one
\* sub-task has finished, and under count:N (N >= 1) not before
\* min(N, n) of its n sub-tasks have finished; when it is resolved every
\* sub-task that is still pending is cancelled and the finished ones are
\* left alone; and the step is always resolved in the end, also when N
\* exceeds n, in which case all n sub-tasks have finished.
C23_WaitThreshold ==
    /\ [][(ParallelResolves /\ CurrentStep.wait_for[1] \in {"any", "count"})
             => /\ CurrentStep.wait_for[1] = "any"
                       => Cardinality(DoneTasks) >= 1
                /\ (CurrentStep.wait_for[1] = "count"
                        /\ CurrentStep.wait_for[2] >= 1)
                       => Cardinality(DoneTasks) >=
                              Min(CurrentStep.wait_for[2], Len(run.tasks))
                /\ \A i \in DOMAIN run.tasks :
                       run'.tasks[i] =
                           IF Done(i) THEN run.tasks[i]
                           ELSE [run.tasks[i] EXCEPT !.pc = "cancelled"]
                /\ step_executions'[run.step_execution].status
                       \in {"completed", "failed"}]_vars
    /\ (run.pc = "wait") ~> (run.pc \in {"steps", "except"})

\* C23 witness: count:2 over a single sub-step has been resolved once
\* that sub-task had finished
C23_Witness ==
    /\ run.pc \in {"steps", "except"}
    /\ run.idx >= 1
    /\ RunSteps[1].wait_for = <<"count", 2>>
    /\ Len(run.tasks) = 1
    /\ run.tasks[1].pc = "done"
    /\ step_executions[run.step_execution].status \in {"completed", "failed"}

\* C28: when execute_workflow marks the execution failed because the
\* capability of a top-level agent, mcp_tool or http step failed with
\* message m on each of the max_retries + 1 attempts the step is entitled
\* to, the step execution of the last attempt is failed with
\* error_message m and the execution's error_message is m.
C28_ErrorSurfacedVerbatim ==
    [][(/\ run.pc = "except" /\ run'.pc = "reraise"
        /\ CurrentStep.type \in LeafTypes
        /\ run.calls >= MaxRetriesOf(CurrentStep) + 1)
          => \E m \in Errors :
                /\ step_executions[run.step_execution].status = "failed"
                /\ step_executions[run.step_execution].error_message = Some(m)
                /\ executions'[run.execution].error_message = Some(m)]_vars

\* the value a path of one or two keys names in a context; PyNone where
\* there is none
PathValue(context, path) ==
    IF Len(path) = 1 THEN Get(context, path[1])
    ELSE IF IsDict(Get(context, path[1]))
         THEN Get(Get(context, path[1]), path[2])
    ELSE PyNone

\* what a piece of a template is to become
ResolvedPiece(piece, context) ==
    IF piece.path = None \/ PathValue(context, The(piece.path)) = PyNone
    THEN piece.text
    ELSE Str(PathValue(context, The(piece.path)))

\* C29: _resolve_template_vars replaces every placeholder whose path names
\* a non-null value by the string form of that value, each placeholder on
\* its own, and leaves a placeholder whose path is missing as it is
\* written; it does so inside dicts and lists; scalars that are no strings
\* and strings written without a placeholder come back unchanged, and
\* resolving them once more changes nothing; "{a.b}" with a.b = "x" gives
\* "x"
C29_TemplateResolution ==
    (response.op = "_resolve_template_vars" /\ response.value # None)
    => \A call \in {The(response.arg)}, out \in {The(response.value)} :
          /\ response.error = None
          /\ out = TemplateData(call.shape,
                                [k \in DOMAIN call.pieces |->
                                    Plain(ResolvedPiece(call.pieces[k],
                                                        call.context))])
          /\ (\/ call.shape \notin {"str", "dict", "list"}
              \/ \A k \in DOMAIN call.pieces : call.pieces[k].path = None)
             => /\ out = call.data
                /\ ResolveTemplateVars(out, call.context) = out
          /\ (/\ call.data = PyStr(<<"{", "a", ".", "b", "}">>)
              /\ PathValue(call.context, << <<"a">>, <<"b">> >>) = PyStr(<<"x">>))
             => out = PyStr(<<"x">>)

\* the path of two keys names an entry of the context
Resolves(context, path) ==
    /\ IsDict(Get(context, path[1]))
    /\ \E k \in DOMAIN Get(context, path[1])[2] :
          Get(context, path[1])[2][k][1] = path[2]

\* the two operands are of one kind: two numbers, two strings, two
\* booleans or two nulls
SameKind(a, b) ==
    \/ a[1] \in {"int", "float"} /\ b[1] \in {"int", "float"}
    \/ a[1] = b[1] /\ a[1] \in {"str", "bool", "none"}

\* a <op> b has a truth value: equality always, order between numbers and
\* between strings
HasTruthValue(a, operator, b) ==
    /\ SameKind(a, b)
    /\ a[1] \in {"bool", "none"} => operator \in {<<"=", "=">>, <<"!", "=">>}

\* the truth value of a <op> b
TruthValue(a, operator, b) ==
    LET less(x, y) == IF x[1] = "str" THEN StrLess(x[2], y[2])
                      ELSE Number(x) < Number(y)
        equal == IF a[1] \in {"int", "float"} THEN Number(a) = Number(b)
                 ELSE a = b
    IN CASE operator = <<">">> -> less(b, a)
         [] operator = <<"<">> -> less(a, b)
         [] operator = <<">", "=">> -> less(b, a) \/ equal
         [] operator = <<"<", "=">> -> less(a, b) \/ equal
         [] operator = <<"=", "=">> -> equal
         [] operator = <<"!", "=">> -> ~equal

\* C30: for a condition "$.<path> <op> <literal>" whose path names an entry
\* of the context, _evaluate_condition returns the truth value of (value at
\* the path) <op> (literal) wherever that comparison has one, for each of
\* the six operators, the literal being true or false, null, a string in
\* double quotes or a number; "$.s.v > 0.8" is true for v = 0.9 and false
\* for v = 0.5, '$.s.status == "ok"' is true for status "ok"
C30_ConditionEvaluation ==
    (response.op = "_evaluate_condition"
        /\ (response.value # None \/ response.error # None))
    => \A call \in {The(response.arg)} :
          /\ (/\ call.prefix = <<"$", ".">>
              /\ call.before = <<" ">>
              /\ call.operator \in Operators
              /\ call.literal.value # None
              /\ Resolves(call.context, call.path)
              /\ HasTruthValue(PathValue(call.context, call.path),
                               call.operator, The(call.literal.value)))
             => /\ response.error = None
                /\ response.value =
                       Some(TruthValue(PathValue(call.context, call.path),
                                       call.operator, The(call.literal.value)))
          /\ (call.condition = <<"$", ".", "s", ".", "v", " ", ">", " ",
                                 "0", ".", "8">>
              /\ PathValue(call.context, call.path) \in
                     {PyFloat(90), PyFloat(50)})
             => response.value =
                    Some(PathValue(call.context, call.path) = PyFloat(90))
          /\ (call.condition = <<"$", ".", "s", ".", "s", "t", "a", "t", "u",
                                 "s", " ", "=", "=", " ", "\"", "o", "k", "\"">>
              /\ PathValue(call.context, call.path) = PyStr(<<"o", "k">>))
             => response.value = Some(TRUE)

\* "$.s.v > 0.8" has been evaluated to true with v = 0.9
C30_Witness ==
    /\ response.op = "_evaluate_condition"
    /\ The(response.arg).condition =
           <<"$", ".", "s", ".", "v", " ", ">", " ", "0", ".", "8">>
    /\ PathValue(The(response.arg).context, The(response.arg).path)
           = PyFloat(90)
    /\ response.value = Some(TRUE)

\* the step executions that carry the name
Recorded(name) ==
    {i \in DOMAIN step_executions : step_executions[i].step_name = name}

\* the agent step A has answered "yes"
AnsweredYes ==
    /\ "A" \in DOMAIN run.workflow_context
    /\ run.workflow_context["A"].response = "yes"

\* the condition of the scenario
ScenarioCondition ==
    <<"$", ".", "A", ".", "response", " ", "=", "=", " ", "\"", "yes", "\"">>

\* C24: a conditional step runs exactly one branch: every step execution of
\* a branch step comes after the step execution of the conditional and
\* belongs to the branch the condition selected, never to the other one;
\* when the conditional completes, its output names the result of the
\* condition and the branch taken, and that branch has a step execution.
\* In the scenario [A; if $.A.response == "yes" then B else C] with A
\* answering "yes" the branch taken is "true", B has a step execution and
\* C has none.
C24_OneBranchExecuted ==
    /\ [](\A i \in DOMAIN step_executions :
             step_executions[i].step \in BranchPool
             => /\ run.condition_result # None
                /\ run.step_execution < i
                /\ step_executions[run.step_execution].step_type = "conditional"
                /\ Some(step_executions[i].step) =
                       (IF The(run.condition_result)
                        THEN step_executions[run.step_execution].step.if_true
                        ELSE step_executions[run.step_execution].step.if_false))
    /\ [][(run.pc = "wait" /\ run'.pc = "steps"
              /\ CurrentStep.type = "conditional")
          => \A out \in {The(step_executions'[run.step_execution].output_data)} :
                /\ out.condition_result = The(Evaluated.returns)
                /\ out.branch_taken =
                       (IF out.condition_result THEN "true" ELSE "false")
                /\ step_executions'[run.step_execution].status = "completed"
                /\ \E i \in DOMAIN step_executions :
                      Some(step_executions[i].step) =
                          (IF out.condition_result THEN CurrentStep.if_true
                           ELSE CurrentStep.if_false)
                /\ out.result = step_executions[Len(step_executions)].output_data[1]
                /\ (/\ CurrentStep.condition = ScenarioCondition
                    /\ AnsweredYes
                    /\ CurrentStep.if_true = Some(BranchNamed("B"))
                    /\ CurrentStep.if_false = Some(BranchNamed("C")))
                   => /\ out.condition_result = TRUE
                      /\ out.branch_taken = "true"
                      /\ Recorded("B") # {}
                      /\ Recorded("C") = {}]_vars

\* the scenario has run: A answered "yes", the conditional is completed
\* with the branch "true", B has a step execution and C has none
C24_Witness ==
    /\ run.pc \in {"steps", "return", "done"}
    /\ AnsweredYes
    /\ \E k \in Recorded("K") :
          /\ step_executions[k].step.condition = ScenarioCondition
          /\ step_executions[k].step.if_false = Some(BranchNamed("C"))
          /\ step_executions[k].status = "completed"
          /\ The(step_executions[k].output_data).branch_taken = "true"
          /\ \E b \in Recorded("B") : b > k /\ step_executions[b].status = "completed"
    /\ Recorded("C") = {}

\* C25: a conditional step whose condition selects a branch it does not
\* have (false without if_false, true without if_true) is completed, not
\* failed; its output is the wrapper {condition_result, branch_taken,
\* result} around {skipped: true, branch: "false"} (or "true"), and no
\* step execution is inserted for the absent branch.
C25_AbsentBranchSkipped ==
    [][(/\ run.pc = "evaluate"
        /\ CurrentStep.condition = ScenarioCondition
        /\ (IF AnsweredYes THEN CurrentStep.if_true
            ELSE CurrentStep.if_false) = None)
       => /\ run'.pc = "steps"
          /\ run'.error = None
          /\ Len(step_executions') = Len(step_executions)
          /\ step_executions'[run.step_execution].status = "completed"
          /\ step_executions'[run.step_execution].error_message = None
          /\ step_executions'[run.step_execution].output_data =
                 Some([condition_result |-> AnsweredYes,
                       branch_taken |-> IF AnsweredYes THEN "true" ELSE "false",
                       result |-> [skipped |-> TRUE,
                                   branch |-> IF AnsweredYes THEN "true"
                                              ELSE "false"]])
          /\ run'.workflow_context[CurrentStep.name] =
                 The(step_executions'[run.step_execution].output_data)]_vars

\* A answered "no", the conditional has no if_false and is completed with
\* the skipped result, and the execution has completed with one step
\* execution for A and one for the conditional
C25_Witness ==
    /\ run.pc = "done"
    /\ executions[run.execution].status = "completed"
    /\ "A" \in DOMAIN run.workflow_context
    /\ ~AnsweredYes
    /\ Len(step_executions) = 2
    /\ step_executions[2].step_type = "conditional"
    /\ step_executions[2].step.if_true # None
    /\ step_executions[2].status = "completed"
    /\ The(step_executions[2].output_data).result =
           [skipped |-> TRUE, branch |-> "false"]

\* the text is a literal of the grammar: true or false, null, a string in
\* double quotes, or a number
IsLiteral(s) ==
    \/ LowerChars(s) \in {<<"t", "r", "u", "e">>, <<"f", "a", "l", "s", "e">>,
                          <<"n", "u", "l", "l">>}
    \/ Len(s) >= 2 /\ Head(s) = "\"" /\ s[Len(s)] = "\""
    \/ IsDecimal(s)

\* the condition is of the grammar $.<path> <op> <literal>
InGrammar(condition) ==
    /\ Matches(Strip(condition))
    /\ Groups(Strip(condition)).operator \in Operators
    /\ IsLiteral(Groups(Strip(condition)).expected)

\* the conditional step fails in this step, before any branch: its step
\* execution becomes failed with the error as error_message, the error is
\* raised, and no step execution is inserted
FailsBeforeBranch ==
    /\ run'.pc = "except"
    /\ run'.error # None
    /\ step_executions'[run.step_execution].status = "failed"
    /\ step_executions'[run.step_execution].error_message = run'.error
    /\ Len(step_executions') = Len(step_executions)
    /\ run'.tasks = <<>>

Unreadable(condition) ==
    \/ ~Matches(Strip(condition))
    \/ Groups(Strip(condition)).operator \notin Operators

C26_NestedStepsDispatched ==
    run.pc = "wait"
    => \A i \in DOMAIN run.tasks :
          (Done(i) /\ SubStep(i).type \in {"parallel", "conditional"})
          => /\ run.tasks[i].error # Some("Unknown step type")
             /\ run.tasks[i].step_execution # 0

InExecutor ==
    run.pc \in {"dispatch", "invoke", "call", "retry", "spawn", "wait",
                "evaluate"}

C33_AgentNotFoundFails ==
    [][(/\ run.pc = "invoke"
        /\ CurrentStep.type = "agent"
        /\ CurrentStep.agent_id \notin Agents[run.tenant_id]
        /\ run'.pc # "invoke")
          => /\ run'.calls = run.calls
             /\ agent_tasks' = agent_tasks
             /\ step_executions'[run.step_execution].status = "failed"
             /\ step_executions'[run.step_execution].error_message
                    = Some("Agent not found")
             /\ run'.pc = "except"
             /\ run'.error = Some("Agent not found")]_vars

\* C34: an http step with max_retries = k whose request fails on every
\* attempt is attempted k + 1 times before its failure is handed to
\* _execute_steps (once when it declares no max_retries).
C34_HttpRetried ==
    [][(/\ run.pc \notin {"idle", "except"}
        /\ run'.pc = "except"
        /\ CurrentStep.type = "http")
          => run'.calls = MaxRetriesOf(CurrentStep) + 1]_vars

\* C36: a step execution whose status is completed or failed keeps that
\* status whatever the engine does next; in particular one that was
\* committed as completed never becomes failed.
C36_StepStatusIsFinal ==
    [][\A i \in DOMAIN step_executions :
          step_executions[i].status \in {"completed", "failed"}
              => step_executions'[i].status = step_executions[i].status]_vars

\* a key of a Python dict
HasKey(value, key) == \E i \in DOMAIN value[2] : value[2][i][1] = key

\* the lookup of parts in value does not resolve: a part is asked of
\* something that is no dict, or of a dict that lacks it
RECURSIVE Unresolved(_, _)
Unresolved(value, parts) ==
    /\ parts # <<>>
    /\ \/ ~IsDict(value)
       \/ ~HasKey(value, Head(parts))
       \/ Unresolved(Get(value, Head(parts)), Tail(parts))

\* the condition of the current conditional step, as the pattern reads it
ConditionGroups == Groups(Strip(CurrentStep.condition))

\* the path of the current condition is not resolved by the context
UnresolvedPath ==
    /\ run.pc = "evaluate"
    /\ Matches(Strip(CurrentStep.condition))
    /\ Unresolved(PyContext(run.workflow_context),
                  Split(ConditionGroups.path, "."))

\* C35: when the path of a condition does not resolve (a key is missing, or
\* a value that is no dict is met before the path ends) the left operand is
\* None: == null gives true and != null gives false, and the branch is
\* chosen accordingly, while >, <, >= and <= against a number raise
\* TypeError: the conditional step is marked failed with that error, no
\* branch is looked at, and the execution is committed failed.
C35_UnresolvedPathIsNull ==
    /\ [][UnresolvedPath
            => /\ (/\ ConditionGroups.operator = <<"=", "=">>
                   /\ ConditionGroups.expected = <<"n", "u", "l", "l">>)
                      => /\ run'.condition_result = Some(TRUE)
                         /\ run'.pc \in {"steps", "wait"}
               /\ (/\ ConditionGroups.operator = <<"!", "=">>
                   /\ ConditionGroups.expected = <<"n", "u", "l", "l">>)
                      => /\ run'.condition_result = Some(FALSE)
                         /\ run'.pc \in {"steps", "wait"}
               /\ (/\ ConditionGroups.operator
                          \in {<<">">>, <<"<">>, <<">", "=">>, <<"<", "=">>}
                   /\ IsDecimal(ConditionGroups.expected))
                      => /\ run'.pc = "except"
                         /\ run'.error = Some("TypeError")
                         /\ step_executions'[run.step_execution].status
                                = "failed"
                         /\ step_executions'[run.step_execution].error_message
                                = Some("TypeError")
                         /\ Len(step_executions') = Len(step_executions)
                         /\ run'.tasks = <<>>]_vars
    /\ [][run.pc = "except"
            => /\ executions'[run.execution].status = "failed"
               /\ executions'[run.execution].error_message = run.error]_vars

\* C35 witness: after the step A had answered, $.A.response.x >= 1 has
\* asked x of a string: the conditional step and the execution are failed
\* with the TypeError and no branch has a step execution
C35_Witness ==
    /\ run.pc = "done"
    /\ Len(step_executions) = 2
    /\ step_executions[1].status = "completed"
    /\ step_executions[2].step_type = "conditional"
    /\ step_executions[2].step.condition =
           <<"$", ".", "A", ".", "response", ".", "x", " ", ">", "=", " ",
             "1">>
    /\ step_executions[2].step.if_true # None
    /\ step_executions[2].step.if_false # None
    /\ step_executions[2].status = "failed"
    /\ step_executions[2].error_message = Some("TypeError")
    /\ executions[run.execution].status = "failed"
    /\ executions[run.execution].error_message = Some("TypeError")

\* C37: when execute_workflow commits an execution as completed, every
\* step execution of that execution has status completed: none is failed
\* and none is still running.
C37_CompletedMeansAllCompleted ==
    [][\A e \in DOMAIN executions :
          (/\ executions[e].status # "completed"
           /\ executions'[e].status = "completed")
              => \A i \in DOMAIN step_executions' :
                    step_executions'[i].workflow_execution_id = e
                        => step_executions'[i].status = "completed"]_vars

\* the loop of _execute_steps has met a step it has no executor for
AtUnknownStep ==
    /\ run.pc \in {"dispatch", "except", "reraise", "done"}
    /\ run.idx \in DOMAIN RunSteps
    /\ CurrentStep.type
           \notin {"agent", "mcp_tool", "parallel", "conditional", "http"}

\* the names of the step the loop is at and of the steps after it
NamesFrom(idx) == {RunSteps[j].name : j \in idx..Len(RunSteps)}

\* C38: a top-level step whose type is none of agent, mcp_tool, parallel,
\* conditional, http raises "Unknown step type" in _execute_steps and
\* execute_workflow commits the execution failed with that message; from
\* the dispatch on no step execution is inserted or changed and the context
\* stays as it was, so there is no record and no context entry for that
\* step or a later one, and each earlier step has its completed record.
C38_UnknownStepTypeFails ==
    /\ [](AtUnknownStep
            => /\ \A i \in DOMAIN step_executions :
                      step_executions[i].workflow_execution_id = run.execution
                          => step_executions[i].step_name
                                 \notin NamesFrom(run.idx)
               /\ DOMAIN run.workflow_context \cap NamesFrom(run.idx) = {}
               /\ \A j \in 1..(run.idx - 1) :
                      \E i \in DOMAIN step_executions :
                          /\ step_executions[i].workflow_execution_id
                                 = run.execution
                          /\ step_executions[i].step_name = RunSteps[j].name
                          /\ step_executions[i].status = "completed"
               /\ run.pc # "dispatch"
                      => run.error = Some("Unknown step type"))
    /\ [][AtUnknownStep
            => /\ step_executions' = step_executions
               /\ run'.workflow_context = run.workflow_context
               /\ run'.idx = run.idx
               /\ (run.pc = "dispatch" /\ run' # run) => run'.pc = "except"
               /\ (run.pc = "except" /\ run' # run)
                      => /\ run'.pc = "reraise"
                         /\ executions'[run.execution].status = "failed"
                         /\ executions'[run.execution].error_message
                                = Some("Unknown step type")
                         /\ executions'[run.execution].completed_at # None
               /\ (run.pc = "reraise" /\ run' # run)
                      => response'.error = Some("Unknown step type")]_vars

\* C38 witness: the agent step A had completed, the step X of type email
\* has failed the execution, and the step execution of A is the only one
C38_Witness ==
    /\ run.pc = "done"
    /\ Len(RunSteps) = 2
    /\ run.idx = 2
    /\ RunSteps[2].type = "email"
    /\ executions[run.execution].status = "failed"
    /\ executions[run.execution].error_message = Some("Unknown step type")
    /\ Len(step_executions) = 1
    /\ step_executions[1].step_name = RunSteps[1].name
    /\ step_executions[1].status = "completed"
    /\ DOMAIN run.workflow_context = {"input", RunSteps[1].name}

\* the executor of the current parallel step hands control back
ParallelFinalized ==
    /\ run.pc \in {"spawn", "wait"}
    /\ run'.pc \notin {"spawn", "wait"}
    /\ CurrentStep.type = "parallel"

\* the parallel step is completed as gather leaves it: every sub-task has
\* finished, the output holds step_i for exactly the sub-steps that
\* returned, under their declared positions, and the loop of
\* _execute_steps goes on with the next step
GatheredLeniently ==
    /\ Len(run.tasks) = Len(CurrentStep.steps)
    /\ \A i \in DOMAIN run.tasks : run.tasks[i].pc = "done"
    /\ step_executions'[run.step_execution].status = "completed"
    /\ \A out \in {The(step_executions'[run.step_execution].output_data)} :
          /\ DOMAIN out = {StepKey(i) : i \in {j \in DOMAIN run.tasks :
                                                  run.tasks[j].error = None}}
          /\ \A i \in DOMAIN run.tasks :
                run.tasks[i].error = None
                    => out[StepKey(i)] = The(run.tasks[i].result)
          /\ run'.workflow_context[CurrentStep.name] = out
    /\ run'.pc = "steps"
    /\ run'.idx = run.idx + 1
    /\ run'.error = None

AnsweredToStranger ==
    /\ response' # response
    /\ response'.op \in {"cancel_workflow", "get_execution_status"}
    /\ The(response'.arg) \in DOMAIN executions
    /\ executions[The(response'.arg)].tenant_id # response'.tenant_id

\* C40: the rows an engine inserts carry the tenant_id of the engine: an
\* execution that of the engine that runs it and of the workflow's owner, a
\* step execution that of its execution; cancel_workflow and
\* get_execution_status asked by a tenant that does not own the execution
\* answer "not found" and change no row; and an execution row changes only
\* in a step of the execute_workflow or cancel_workflow request of the
\* tenant that owns it.
C40_TenantIsolation ==
    /\ [](/\ \A e \in DOMAIN executions :
                /\ e = run.execution => executions[e].tenant_id = run.tenant_id
                /\ workflows[executions[e].workflow_id].tenant_id
                       = executions[e].tenant_id
          /\ \A i \in DOMAIN step_executions :
                step_executions[i].tenant_id
                    = executions[step_executions[i].workflow_execution_id]
                          .tenant_id
          /\ cancel.pc # "idle"
                => executions[cancel.execution_id].tenant_id
                       = cancel.tenant_id)
    /\ [][AnsweredToStranger
            => /\ response'.error = Some("not found")
               /\ response'.value = None
               /\ executions' = executions
               /\ step_executions' = step_executions
               /\ cancel' = cancel]_vars
    /\ [][\A e \in DOMAIN executions :
             executions'[e] # executions[e]
                 => \/ /\ run' # run
                       /\ run.execution = e
                       /\ run.tenant_id = executions[e].tenant_id
                    \/ /\ cancel' # cancel
                       /\ cancel.execution_id = e
                       /\ cancel.tenant_id = executions[e].tenant_id]_vars

\* C40 witness: while the execution of one tenant is running with a step
\* execution of its own, the other tenant has asked to cancel it and was
\* answered "not found"
C40_Witness ==
    /\ run.pc = "invoke"
    /\ executions[run.execution].status = "running"
    /\ step_executions[run.step_execution].tenant_id = run.tenant_id
    /\ response.op = "cancel_workflow"
    /\ response.arg = Some(run.execution)
    /\ response.tenant_id # run.tenant_id
    /\ response.error = Some("not found")
    /\ cancel = IdleCancel

====
